---- MODULE Spec2Model ----
(***************************************************************************)
(* A model of the JSON document engine of cpprestsdk                       *)
(* (Release/include/cpprest/json.h): json::object, json::array and the     *)
(* json::value tree that owns them.                                        *)
(*                                                                         *)
(* Iterators are positions 1..Len(m_elements)+1, the last one being end(). *)
(* Keys (utf8string) are sequences of bytes.                               *)
(***************************************************************************)
EXTENDS Integers, Sequences, FiniteSets

VARIABLES
    obj,      \* SpecObject: the json::object, [m_elements, m_keep_order]
    ctor,     \* SpecObject: how obj was constructed: "empty", "distinct", "dup"
    order,    \* SpecObject: history, the present keys in first-insertion order
    last,     \* SpecObject: history, the last call: its arguments, the storage before it, its outcome
    objS,     \* SpecPair: a Sorted object's m_elements
    objO,     \* SpecPair: an Ordered object's m_elements
    amap,     \* SpecPair: history, the key -> value map the calls describe
    found,    \* SpecPair: history, the last find: its key and what each object returned
    arr,      \* SpecArray: the json::array's m_elements
    alast,    \* SpecArray: history, the last call: its index, the elements before it, its outcome
    heap,     \* SpecValue: the _Value objects, by address
    roots,    \* SpecValue: two json::value variables, a and b: the address each m_value holds
    vlast,    \* SpecValue: history, the last statement: the variable it changed and the other one's tree before it
    snap,     \* SpecValue: history, "copied" after a copy, "changed" once a or b was changed since, else "none"
    nums,     \* SpecNumber: two json::number objects, x and y, each with the constructor call that built it
    nlast,    \* SpecNumber: history, the last call on them and what it returned
    doc,      \* SpecDocument: a json::value, as the tree it owns
    dlast,    \* SpecDocument: history, the last call on doc: its arguments and its outcome
    g_keep_json_object_unsorted, \* SpecFactory: details::g_keep_json_object_unsorted
    made,     \* SpecFactory: history, the last call of value::object: its arguments, the flag then, the value made
    plast,    \* SpecParser: history, the last call of value::parse: its text, the flag then, its outcome
    slast, \* SpecSize: history, the last call of size() or serialize_size() on doc and what it returned
    guarantee_order, \* SpecClient: m_client_config.guarantee_order()
    m_opened, \* SpecClient: _http_client_communicator::m_opened
    m_scheduled, \* SpecClient: _http_client_communicator::m_scheduled
    m_requests_queue, \* SpecClient: _http_client_communicator::m_requests_queue, the requests in it
    m_open_lock, \* SpecClient: _http_client_communicator::m_open_lock: the request whose task holds it during open(), 0 if free
    pc, \* SpecClient: where each request is on its way from async_send_request to finish_request
    pushed, \* SpecClient: history, the requests in the order their push_request took the lock
    started, \* SpecClient: history, the requests in the order their open_and_send_request task was created
    opens, \* SpecClient: history, the calls of open() that returned: the request and the error
    outcome, \* SpecClient: history, what became of each request: send_request was called, or the error reported
    m_request_completion, \* SpecContext: request_context::m_request_completion, the event of the response headers: unset, set to the response, or set to an exception
    m_response, \* SpecContext: request_context::m_response, the completion of its body: pending, or complete with a size and perhaps an exception
    canceled, \* SpecContext: m_request._cancellation_token().is_canceled()
    finished, \* SpecContext: history, the number of calls of request_context::finish
    clast, \* SpecContext: history, the last call on the request_context: its arguments, the token and the two completions when it was made
    CPPREST_TARGET_XP, \* SpecPipeline: whether the library was built with CPPREST_TARGET_XP defined
    m_pipeline, \* SpecPipeline: http_client::m_pipeline: its stages and its last stage, or none
    blast \* SpecPipeline: history, the construction of the http_client: its arguments and what it threw

vars == <<obj, ctor, order, last, objS, objO, amap, found, arr, alast, heap, roots, vlast, snap,
          nums, nlast, doc, dlast, g_keep_json_object_unsorted, made, plast,
          slast,
          guarantee_order, m_opened, m_scheduled, m_requests_queue, m_open_lock, pc, pushed, started, opens, outcome,
          m_request_completion, m_response, canceled, finished, clast,
          CPPREST_TARGET_XP, m_pipeline, blast>>

objectVars == <<obj, ctor, order, last>>
pairVars == <<objS, objO, amap, found>>
arrayVars == <<arr, alast>>
valueVars == <<heap, roots, vlast, snap>>
numberVars == <<nums, nlast>>
documentVars == <<doc, dlast>>
factoryVars == <<g_keep_json_object_unsorted, made>>
parserVars == <<plast>>
sizeVars == <<slast>>
clientVars == <<guarantee_order, m_opened, m_scheduled, m_requests_queue, m_open_lock, pc, pushed, started, opens, outcome>>
contextVars == <<m_request_completion, m_response, canceled, finished, clast>>
pipelineVars == <<CPPREST_TARGET_XP, m_pipeline, blast>>

\* the variables a specification leaves alone
notObject == <<pairVars, arrayVars, valueVars, numberVars, documentVars, factoryVars, parserVars, sizeVars, clientVars, contextVars, pipelineVars>>
notPair == <<objectVars, arrayVars, valueVars, numberVars, documentVars, factoryVars, parserVars, sizeVars, clientVars, contextVars, pipelineVars>>
notArray == <<objectVars, pairVars, valueVars, numberVars, documentVars, factoryVars, parserVars, sizeVars, clientVars, contextVars, pipelineVars>>
notValue == <<objectVars, pairVars, arrayVars, numberVars, documentVars, factoryVars, parserVars, sizeVars, clientVars, contextVars, pipelineVars>>
notNumber == <<objectVars, pairVars, arrayVars, valueVars, documentVars, factoryVars, parserVars, sizeVars, clientVars, contextVars, pipelineVars>>
\* SpecParser reads and sets the flag of SpecFactory
notParser == <<objectVars, pairVars, arrayVars, valueVars, numberVars, documentVars, made, sizeVars, clientVars, contextVars, pipelineVars>>
notFactory == <<objectVars, pairVars, arrayVars, valueVars, numberVars, documentVars, parserVars, sizeVars, clientVars, contextVars, pipelineVars>>
notDocument == <<objectVars, pairVars, arrayVars, valueVars, numberVars, factoryVars, parserVars, sizeVars, clientVars, contextVars, pipelineVars>>
notSize == <<objectVars, pairVars, arrayVars, valueVars, numberVars, documentVars, factoryVars, parserVars, clientVars, contextVars, pipelineVars>>
notClient == <<objectVars, pairVars, arrayVars, valueVars, numberVars, documentVars, factoryVars, parserVars, sizeVars, contextVars, pipelineVars>>
notContext == <<objectVars, pairVars, arrayVars, valueVars, numberVars, documentVars, factoryVars, parserVars, sizeVars, clientVars, pipelineVars>>
notPipeline == <<objectVars, pairVars, arrayVars, valueVars, numberVars, documentVars, factoryVars, parserVars, sizeVars, clientVars, contextVars>>

(***************************************************************************)
(* Bounds of the model.                                                    *)
(***************************************************************************)
\* the longest collection an object is constructed from
MaxInit == 2
\* the most entries an object is grown to by operator[]
MaxObjSize == 3
\* the largest value of array::size_type (2^64 - 1 in the build, scaled down)
SizeTypeMax == 7
\* the most _Value objects the two variables own after a statement
MaxCells == 6
\* the width of int32_t and uint32_t (32 in the build, scaled down)
Bits32 == 3
\* the width of int64_t and uint64_t (64 in the build, scaled down)
Bits64 == 4
\* doubles are the multiples of 1/2 up to MaxHalves/2 in magnitude, of either
\* sign (two zeros), and NaN
MaxHalves == 3
\* the most elements or fields of the arrays and objects SpecDocument draws
MaxKids == 2

(***************************************************************************)
(* Keys and values.                                                        *)
(***************************************************************************)
\* utf8string keys as byte sequences: "", "a", "ab", "b"
Keys == {<<>>, <<97>>, <<97, 98>>, <<98>>}

\* json::value(): the null value
Null == "null"

\* the values written through references; Null is what operator[] creates
Values == {Null, "true"}

\* std::pair<utf8string, json::value>
Pair(k, v) == [first |-> k, second |-> v]

\* std::string operator<: lexicographic on the bytes, a proper prefix is less
RECURSIVE StrLess(_, _)
StrLess(a, b) ==
    IF b = <<>> THEN FALSE
    ELSE IF a = <<>> THEN TRUE
    ELSE IF Head(a) # Head(b) THEN Head(a) < Head(b)
    ELSE StrLess(Tail(a), Tail(b))

\* object::compare_pairs
compare_pairs(p1, p2) == StrLess(p1.first, p2.first)

\* object::compare_with_key
compare_with_key(p1, key) == StrLess(p1.first, key)

(***************************************************************************)
(* Sequence helpers (std::vector).                                         *)
(***************************************************************************)
\* vector::insert(iter, x): x is placed before position iter
InsertAt(s, iter, x) == SubSeq(s, 1, iter - 1) \o <<x>> \o SubSeq(s, iter, Len(s))

\* vector::erase(iter)
RemoveAt(s, iter) == SubSeq(s, 1, iter - 1) \o SubSeq(s, iter + 1, Len(s))

\* m_elements.end()
End(elements) == Len(elements) + 1

KeysOf(elements) == [i \in 1..Len(elements) |-> elements[i].first]

\* std::find_if(begin, end, p.first == key): the first match, else end
find_if(elements, key) ==
    IF \E i \in 1..Len(elements) : elements[i].first = key
    THEN CHOOSE i \in 1..Len(elements) :
            /\ elements[i].first = key
            /\ \A j \in 1..(i - 1) : elements[j].first # key
    ELSE End(elements)

\* std::lower_bound(begin, end, key, compare_with_key): the bisection of the
\* range [first, first + count)
RECURSIVE lower_bound_step(_, _, _, _)
lower_bound_step(elements, key, first, count) ==
    IF count <= 0 THEN first
    ELSE LET step == count \div 2
             it == first + step
         IN IF compare_with_key(elements[it], key)
            THEN lower_bound_step(elements, key, it + 1, count - (step + 1))
            ELSE lower_bound_step(elements, key, first, step)

lower_bound(elements, key) == lower_bound_step(elements, key, 1, Len(elements))

\* the results std::sort(begin, end, compare_pairs) may give: the orderings of
\* the same entries in which no entry is less than an earlier one (std::sort is
\* not stable: entries with equal keys come out in either order)
Orderings(n) == {f \in [1..n -> 1..n] : \A i, j \in 1..n : i # j => f[i] # f[j]}
sort(elements) ==
    {[i \in 1..Len(elements) |-> elements[f[i]]] : f \in
        {g \in Orderings(Len(elements)) :
            \A i, j \in 1..Len(elements) :
                i < j => ~compare_pairs(elements[g[j]], elements[g[i]])}}

(***************************************************************************)
(* json::object                                                            *)
(***************************************************************************)
\* object::object(storage_type elements, bool keep_order): the objects the
\* constructor may build
object_ctor(elements, keep_order) ==
    {[m_elements |-> e, m_keep_order |-> keep_order] :
        e \in IF ~keep_order THEN sort(elements) ELSE {elements}}

\* find_insert_location that scans and appends whatever the mode is
find_insert_location_scan(o, key) == find_if(o.m_elements, key)

\* find_insert_location that bisects whatever the mode is
find_insert_location_bisect(o, key) == lower_bound(o.m_elements, key)

\* object::find_insert_location
find_insert_location(o, key) ==
    IF o.m_keep_order
    THEN find_if(o.m_elements, key)
    ELSE lower_bound(o.m_elements, key)

\* find_by_key without the comparison of the key found
find_by_key_nocheck(o, key) == find_insert_location(o, key)

\* object::find_by_key (non-const)
find_by_key(o, key) ==
    LET iter == find_insert_location(o, key)
    IN IF iter # End(o.m_elements) /\ key # o.m_elements[iter].first
       THEN End(o.m_elements)
       ELSE iter

\* find_by_key const without the comparison of the key found
find_by_key_const_nocheck(o, key) ==
    IF o.m_keep_order
    THEN find_if(o.m_elements, key)
    ELSE lower_bound(o.m_elements, key)

\* object::find_by_key const
find_by_key_const(o, key) ==
    IF o.m_keep_order
    THEN find_if(o.m_elements, key)
    ELSE LET iter == lower_bound(o.m_elements, key)
         IN IF iter # End(o.m_elements) /\ key # o.m_elements[iter].first
            THEN End(o.m_elements)
            ELSE iter

\* object::find
find(o, key) == find_by_key_const(o, key)

\* operator[] that inserts only at end(), without comparing the key found
object_index_nocheck(o, key) ==
    LET iter == find_insert_location(o, key)
    IN IF iter = End(o.m_elements)
       THEN [m_elements |-> InsertAt(o.m_elements, iter, Pair(key, Null)),
             ret |-> iter, err |-> "none"]
       ELSE [m_elements |-> o.m_elements, ret |-> iter, err |-> "none"]

\* object::operator[]: the storage after the call and the entry returned
object_index(o, key) ==
    LET iter == find_insert_location(o, key)
    IN IF iter = End(o.m_elements) \/ key # o.m_elements[iter].first
       THEN [m_elements |-> InsertAt(o.m_elements, iter, Pair(key, Null)),
             ret |-> iter, err |-> "none"]
       ELSE [m_elements |-> o.m_elements, ret |-> iter, err |-> "none"]

\* object::at: the entry returned, or the json_exception thrown
object_at(o, key) ==
    LET iter == find_by_key(o, key)
    IN IF iter = End(o.m_elements)
       THEN [m_elements |-> o.m_elements, ret |-> 0, err |-> "Key not found"]
       ELSE [m_elements |-> o.m_elements, ret |-> iter, err |-> "none"]

\* object::erase(const utf8string&)
object_erase(o, key) ==
    LET iter == find_by_key(o, key)
    IN IF iter = End(o.m_elements)
       THEN [m_elements |-> o.m_elements, ret |-> 0, err |-> "Key not found"]
       ELSE [m_elements |-> RemoveAt(o.m_elements, iter), ret |-> 0, err |-> "none"]

\* object::erase(iterator): the iterator returned follows the erased entry
object_erase_iter(o, position) ==
    [m_elements |-> RemoveAt(o.m_elements, position), ret |-> position, err |-> "none"]

\* object::size
object_size(o) == Len(o.m_elements)

(***************************************************************************)
(* SpecObject: one object, constructed empty or from a collection, under   *)
(* any sequence of calls.                                                  *)
(***************************************************************************)
Collections == UNION {[1..n -> {Pair(k, v) : k \in Keys, v \in Values}] : n \in 0..MaxInit}

DistinctKeys(elements) ==
    \A i, j \in 1..Len(elements) : i # j => elements[i].first # elements[j].first

RemoveKey(s, key) ==
    IF \E i \in 1..Len(s) : s[i] = key
    THEN RemoveAt(s, CHOOSE i \in 1..Len(s) : s[i] = key /\ \A j \in 1..(i - 1) : s[j] # key)
    ELSE s

Call(op, key, position, pre, r) ==
    [op |-> op, key |-> key, pos |-> position, pre |-> pre, err |-> r.err, ret |-> r.ret]

NoCall == [op |-> "none", key |-> <<>>, pos |-> 0, pre |-> <<>>, err |-> "none", ret |-> 0]

EmptyObject(keep_order) == [m_elements |-> <<>>, m_keep_order |-> keep_order]

NoFind == [op |-> "none", key |-> <<>>, s |-> <<>>, o |-> <<>>]

NoArrayCall == [op |-> "none", index |-> 0, pre |-> <<>>, err |-> "none"]

\* addresses of _Value objects: room for the objects owned and for those a
\* statement builds before it deletes the ones it replaces
Addr == 1..(MaxCells + MaxCells)

\* a _Value object: its dynamic type and the member of that type
Cell(type, m_value, m_array, m_object, m_keep_order) ==
    [type |-> type, m_value |-> m_value, m_array |-> m_array,
     m_object |-> m_object, m_keep_order |-> m_keep_order]

\* storage holding no object
FreeCell == Cell("Free", "none", <<>>, <<>>, FALSE)

\* details::_Null
NullCell == Cell("Null", "none", <<>>, <<>>, FALSE)

NoStatement == [op |-> "none", target |-> "a", other |-> <<>>, after |-> "none"]

NoCopy == "none"

\* json::value a, b: two null values
IdleValue ==
    /\ heap = [x \in Addr |-> IF x <= 2 THEN NullCell ELSE FreeCell]
    /\ roots = [a |-> 1, b |-> 2]
    /\ vlast = NoStatement
    /\ snap = NoCopy

IdleArray == arr = <<>> /\ alast = NoArrayCall

\* the double +0.0 and the json::number built from the int32_t 0
ZeroDouble == [nan |-> FALSE, neg |-> FALSE, halves |-> 0]
ZeroNumber == [m_type |-> "unsigned_type", m_uintval |-> 0, m_value |-> ZeroDouble]

\* json::number x(0), y(0), no call made
IdleNumber ==
    /\ nums = [s \in {"x", "y"} |->
                [n |-> ZeroNumber, ctor |-> "int32_t", src |-> 0, dsrc |-> ZeroDouble]]
    /\ nlast = [op |-> "none", slot |-> "x", ret |-> 0]

\* the tree a json::value owns: the dynamic type of its _Value and the
\* members of that class (m_value of _Boolean, m_number of _Number, m_string
\* and m_has_escape_char of _UTF8String, m_array of _Array, m_object of
\* _Object), the members of the other classes at fixed values
Val(type, m_value, m_number, m_string, m_has_escape_char, m_array, m_object) ==
    [type |-> type, m_value |-> m_value, m_number |-> m_number, m_string |-> m_string,
     m_has_escape_char |-> m_has_escape_char, m_array |-> m_array, m_object |-> m_object]

\* json::value(): a _Null
NullV == Val("Null", FALSE, ZeroNumber, <<>>, FALSE, <<>>, EmptyObject(FALSE))

NoDocCall ==
    [op |-> "none", key |-> <<>>, index |-> 0, other |-> <<>>,
     err |-> "none", ret |-> NullV, out |-> <<>>]

\* json::value doc, no call made
IdleDocument == doc = NullV /\ dlast = NoDocCall

NoObjectMade ==
    [call |-> "none", fields |-> <<>>, explicit |-> FALSE, keep_order |-> FALSE,
     flag |-> FALSE, value |-> NullV]

NoSizeCall == [op |-> "none", ret |-> 0]

\* no call of size() or serialize_size() made
IdleSize == slast = NoSizeCall

\* the requests passed to one client
MaxRequests == 3
Requests == 1..MaxRequests

\* a client just constructed: m_opened(false), m_scheduled(0), no request yet
IdleClient ==
    /\ guarantee_order = FALSE
    /\ m_opened = FALSE
    /\ m_scheduled = 0
    /\ m_requests_queue = <<>>
    /\ m_open_lock = 0
    /\ pc = [r \in Requests |-> "idle"]
    /\ pushed = <<>>
    /\ started = <<>>
    /\ opens = <<>>
    /\ outcome = [r \in Requests |-> [sent |-> FALSE, error |-> 0]]

\* no exception stored
NoException == [type |-> "none", code |-> 0, category |-> "none", what |-> ""]

\* the two completions of a request_context just made
HeadersUnset == [state |-> "unset", exception |-> NoException]
BodyPending == [state |-> "pending", size |-> 0, exception |-> NoException]

NoContextCall ==
    [op |-> "none", error_code |-> 0, what |-> "", exception |-> NoException,
     canceled |-> FALSE, headers |-> HeadersUnset, body |-> BodyPending, finished |-> 0]

\* a request_context nothing was reported to
IdleContext ==
    /\ m_request_completion = HeadersUnset
    /\ m_response = BodyPending
    /\ canceled = FALSE
    /\ finished = 0
    /\ clast = NoContextCall

\* no pipeline, no handler, nothing thrown
NoPipeline == [created |-> FALSE, stages |-> <<>>, last_stage |-> <<>>]
NoThrow == [type |-> "none", what |-> ""]
NoUri == [scheme |-> "", host |-> "", path |-> ""]
NoConfig == [oauth1 |-> "none", oauth2 |-> "none"]
NoConstruction ==
    [op |-> "none", base_uri |-> NoUri, client_config |-> NoConfig, thrown |-> NoThrow]

\* no http_client constructed
IdlePipeline ==
    /\ CPPREST_TARGET_XP = FALSE
    /\ m_pipeline = NoPipeline
    /\ blast = NoConstruction

NoParse ==
    [op |-> "none", text |-> <<>>, from |-> <<>>, flag |-> FALSE,
     thrown |-> FALSE, errorCode |-> 0, value |-> NullV]

\* no call of value::parse made
IdleParser == plast = NoParse

\* the flag as the program starts ("The default is false"), no object made
IdleFactory == g_keep_json_object_unsorted = FALSE /\ made = NoObjectMade

IdlePair ==
    /\ objS = EmptyObject(FALSE)
    /\ objO = EmptyObject(TRUE)
    /\ amap = [k \in Keys |-> "absent"]
    /\ found = NoFind

InitObject ==
    /\ \E elements \in Collections, keep_order \in BOOLEAN :
          /\ obj \in object_ctor(elements, keep_order)
          /\ ctor = IF elements = <<>> THEN "empty"
                    ELSE IF DistinctKeys(elements) THEN "distinct" ELSE "dup"
          /\ order = KeysOf(elements)
    /\ last = NoCall
    /\ IdlePair
    /\ IdleArray
    /\ IdleValue
    /\ IdleNumber
    /\ IdleDocument
    /\ IdleFactory
    /\ IdleParser
    /\ IdlePipeline
    /\ IdleContext
    /\ IdleClient
    /\ IdleSize

\* v = obj[key]; the reference stays usable until the next call
OperatorIndex(key) ==
    LET r == object_index(obj, key)
    IN /\ Len(r.m_elements) <= MaxObjSize \/ Len(r.m_elements) = Len(obj.m_elements)
       /\ obj' = [obj EXCEPT !.m_elements = r.m_elements]
       /\ order' = IF \E i \in 1..Len(order) : order[i] = key THEN order ELSE Append(order, key)
       /\ last' = Call("operator[]", key, 0, obj.m_elements, r)
       /\ UNCHANGED <<ctor, notObject>>

\* obj.at(key)
At(key) ==
    LET r == object_at(obj, key)
    IN /\ obj' = [obj EXCEPT !.m_elements = r.m_elements]
       /\ last' = Call("at", key, 0, obj.m_elements, r)
       /\ UNCHANGED <<ctor, order, notObject>>

\* ref = v, for the reference the last operator[] or at returned
WriteRef(v) ==
    /\ last.op \in {"operator[]", "at", "write"}
    /\ last.err = "none"
    /\ obj' = [obj EXCEPT !.m_elements[last.ret].second = v]
    /\ last' = [last EXCEPT !.op = "write", !.pre = obj.m_elements]
    /\ UNCHANGED <<ctor, order, notObject>>

\* obj.erase(key)
EraseKey(key) ==
    LET r == object_erase(obj, key)
    IN /\ obj' = [obj EXCEPT !.m_elements = r.m_elements]
       /\ order' = RemoveKey(order, key)
       /\ last' = Call("erase", key, 0, obj.m_elements, r)
       /\ UNCHANGED <<ctor, notObject>>

\* obj.erase(iter), iter an iterator to an entry
EraseIter(position) ==
    LET r == object_erase_iter(obj, position)
    IN /\ position \in 1..Len(obj.m_elements)
       /\ obj' = [obj EXCEPT !.m_elements = r.m_elements]
       /\ order' = RemoveKey(order, obj.m_elements[position].first)
       /\ last' = Call("erase_iter", <<>>, position, obj.m_elements, r)
       /\ UNCHANGED <<ctor, notObject>>

\* obj.find(key)
Find(key) ==
    /\ last' = Call("find", key, 0, obj.m_elements,
                    [ret |-> find(obj, key), err |-> "none"])
    /\ UNCHANGED <<obj, ctor, order, notObject>>

NextObject ==
    \/ \E key \in Keys : OperatorIndex(key)
    \/ \E key \in Keys : At(key)
    \/ \E v \in Values : WriteRef(v)
    \/ \E key \in Keys : EraseKey(key)
    \/ \E position \in 1..(MaxInit + MaxObjSize) : EraseIter(position)
    \/ \E key \in Keys : Find(key)

SpecObject == InitObject /\ [][NextObject]_vars

(***************************************************************************)
(* Properties of json::object, checked under SpecObject.                   *)
(***************************************************************************)
HasKey(elements, key) == \E i \in 1..Len(elements) : elements[i].first = key

StrictlyAscending(elements) ==
    \A i \in 1..(Len(elements) - 1) : StrLess(elements[i].first, elements[i + 1].first)

\* C1: a Sorted object built empty or from distinct keys keeps its keys
\* strictly ascending, byte-wise, in storage order, after every operator[],
\* write through a reference, erase(key) and erase(iterator).
C1_SortedAscending ==
    (~obj.m_keep_order /\ ctor \in {"empty", "distinct"})
        => StrictlyAscending(obj.m_elements)

\* C1 witness: a Sorted object built from a collection has just had a key
\* inserted by operator[] between two stored keys.
C1_Witness ==
    /\ ~obj.m_keep_order
    /\ ctor = "distinct"
    /\ last.op = "operator[]"
    /\ Len(last.pre) = 2
    /\ Len(obj.m_elements) = 3
    /\ last.ret = 2

\* C2: in every reachable state, whatever the mode and the construction, no
\* two stored entries have the same key.
C2_UniqueKeys == DistinctKeys(obj.m_elements)

\* C3: an Ordered object built empty stores the present keys in the order of
\* their first insertion since they were last absent.
C3_InsertionOrder ==
    (obj.m_keep_order /\ ctor = "empty") => KeysOf(obj.m_elements) = order

\* C3 witness: an Ordered object built empty holds three keys out of byte
\* order, after an erase and an operator[] on a key already present.
C3_Witness ==
    /\ obj.m_keep_order
    /\ ctor = "empty"
    /\ Len(obj.m_elements) = 3
    /\ StrLess(obj.m_elements[2].first, obj.m_elements[1].first)
    /\ last.op = "operator[]"
    /\ HasKey(last.pre, last.key)
    /\ last.ret = 1

\* C4: operator[](key) never fails; on a present key it returns that entry
\* and changes nothing; on an absent key it inserts exactly one entry, Null,
\* returns it, and the other entries keep their values and relative order.
C4_OperatorIndex ==
    last.op = "operator[]" =>
        /\ last.err = "none"
        /\ last.ret \in 1..Len(obj.m_elements)
        /\ obj.m_elements[last.ret].first = last.key
        /\ IF HasKey(last.pre, last.key)
           THEN obj.m_elements = last.pre
           ELSE /\ Len(obj.m_elements) = Len(last.pre) + 1
                /\ obj.m_elements[last.ret] = Pair(last.key, Null)
                /\ RemoveAt(obj.m_elements, last.ret) = last.pre

\* C4 witness: operator[] on an absent key has inserted a Null entry before
\* the last entry of a Sorted object whose other entries are not Null.
C4_Witness ==
    /\ last.op = "operator[]"
    /\ ~obj.m_keep_order
    /\ ~HasKey(last.pre, last.key)
    /\ Len(last.pre) = 2
    /\ last.ret = 2
    /\ \A i \in 1..2 : last.pre[i].second # Null

\* C5: at(key) and erase(key) on an absent key fail with "Key not found" and
\* leave the entries, their order and the size as they were; at never inserts.
C5_AbsentKeyFails ==
    /\ (last.op \in {"at", "erase"} /\ ~HasKey(last.pre, last.key))
          => (last.err = "Key not found" /\ obj.m_elements = last.pre)
    /\ last.op = "at" => obj.m_elements = last.pre

\* C5 witness: erase of an absent key that sorts before a stored key has
\* failed on a Sorted object with two entries.
C5_Witness ==
    /\ last.op = "erase"
    /\ last.err = "Key not found"
    /\ ~obj.m_keep_order
    /\ Len(last.pre) = 2
    /\ lower_bound(last.pre, last.key) = 2

(***************************************************************************)
(* SpecPair: a Sorted and an Ordered object, both built empty, driven by   *)
(* the same calls.                                                         *)
(***************************************************************************)
IdleObject ==
    /\ obj = EmptyObject(FALSE)
    /\ ctor = "empty"
    /\ order = <<>>
    /\ last = NoCall

InitPair == IdlePair /\ IdleObject /\ IdleArray /\ IdleValue /\ IdleNumber /\ IdleDocument /\ IdleFactory /\ IdleParser /\ IdleSize /\ IdleClient /\ IdleContext /\ IdlePipeline

\* what find returns: <<the entry>>, or <<>> for end()
Found(o, key) ==
    LET iter == find(o, key)
    IN IF iter = End(o.m_elements) THEN <<>> ELSE <<o.m_elements[iter]>>

\* o[key] on both objects
PairIndex(key) ==
    LET rs == object_index(objS, key)
        ro == object_index(objO, key)
    IN /\ Len(ro.m_elements) <= MaxObjSize \/ Len(ro.m_elements) = Len(objO.m_elements)
       /\ objS' = [objS EXCEPT !.m_elements = rs.m_elements]
       /\ objO' = [objO EXCEPT !.m_elements = ro.m_elements]
       /\ amap' = IF amap[key] = "absent" THEN [amap EXCEPT ![key] = Null] ELSE amap
       /\ UNCHANGED <<found, notPair>>

\* o[key] = v on both objects
PairWrite(key, v) ==
    LET rs == object_index(objS, key)
        ro == object_index(objO, key)
    IN /\ Len(ro.m_elements) <= MaxObjSize \/ Len(ro.m_elements) = Len(objO.m_elements)
       /\ objS' = [objS EXCEPT !.m_elements = [rs.m_elements EXCEPT ![rs.ret].second = v]]
       /\ objO' = [objO EXCEPT !.m_elements = [ro.m_elements EXCEPT ![ro.ret].second = v]]
       /\ amap' = [amap EXCEPT ![key] = v]
       /\ UNCHANGED <<found, notPair>>

\* o.erase(key) on both objects
PairErase(key) ==
    /\ objS' = [objS EXCEPT !.m_elements = object_erase(objS, key).m_elements]
    /\ objO' = [objO EXCEPT !.m_elements = object_erase(objO, key).m_elements]
    /\ amap' = [amap EXCEPT ![key] = "absent"]
    /\ UNCHANGED <<found, notPair>>

\* o.find(key) on both objects
PairFind(key) ==
    /\ found' = [op |-> "find", key |-> key, s |-> Found(objS, key), o |-> Found(objO, key)]
    /\ UNCHANGED <<objS, objO, amap, notPair>>

NextPair ==
    \/ \E key \in Keys : PairIndex(key)
    \/ \E key \in Keys, v \in Values : PairWrite(key, v)
    \/ \E key \in Keys : PairErase(key)
    \/ \E key \in Keys : PairFind(key)

SpecPair == InitPair /\ [][NextPair]_vars

\* what find must return for the map the calls describe
Expected(key) == IF amap[key] = "absent" THEN <<>> ELSE <<Pair(key, amap[key])>>

\* C6: a Sorted and an Ordered object driven by the same calls are the same
\* key -> value map: in both, find(k) returns an entry exactly when k was
\* inserted and not erased since, with the value last written, and size() is
\* the number of present keys.
C6_FindAgrees ==
    /\ \A k \in Keys : Found(objS, k) = Expected(k) /\ Found(objO, k) = Expected(k)
    /\ object_size(objS) = Cardinality({k \in Keys : amap[k] # "absent"})
    /\ object_size(objO) = Cardinality({k \in Keys : amap[k] # "absent"})
    /\ found.s = found.o

\* C6 witness: the two objects store three keys in different orders, and
\* find has just missed, in both, an erased key that sorts between two stored
\* ones.
C6_Witness ==
    /\ Len(objS.m_elements) = 3
    /\ objS.m_elements # objO.m_elements
    /\ found.op = "find"
    /\ found.s = <<>>
    /\ found.o = <<>>
    /\ lower_bound(objS.m_elements, found.key) = 2
    /\ \E k \in Keys : amap[k] = "true"

(***************************************************************************)
(* json::array.  Element index i (from 0) is m_elements[i + 1].            *)
(***************************************************************************)
\* std::vector::resize(n): grows with value(), the null value
resize(elements, n) ==
    IF n > Len(elements)
    THEN elements \o [i \in 1..(n - Len(elements)) |-> Null]
    ELSE SubSeq(elements, 1, n)

\* operator[] with a plain size_type addition, which wraps
array_index_wrapping(elements, index) ==
    LET nMinSize == (index + 1) % (SizeTypeMax + 1)
    IN [m_elements |-> IF Len(elements) < nMinSize THEN resize(elements, nMinSize) ELSE elements,
        err |-> "none"]

\* operator[] that grows to index elements
array_index_short(elements, index) ==
    IF index + 1 > SizeTypeMax
    THEN [m_elements |-> elements, err |-> "SafeIntException"]
    ELSE [m_elements |-> IF Len(elements) < index + 1 THEN resize(elements, index) ELSE elements,
          err |-> "none"]

\* array::operator[]: SafeInt<size_type> nMinSize(index); nMinSize += 1 throws
\* when index + 1 is not a size_type
array_index(elements, index) ==
    IF index + 1 > SizeTypeMax
    THEN [m_elements |-> elements, err |-> "SafeIntException"]
    ELSE LET nMinSize == index + 1
             nlastSize == Len(elements)
         IN [m_elements |-> IF nlastSize < nMinSize THEN resize(elements, nMinSize) ELSE elements,
             err |-> "none"]

\* array::at
array_at(elements, index) ==
    IF index >= Len(elements)
    THEN [m_elements |-> elements, err |-> "index out of bounds"]
    ELSE [m_elements |-> elements, err |-> "none"]

\* erase(index) that lets index = size() through
array_erase_off_by_one(elements, index) ==
    IF index > Len(elements)
    THEN [m_elements |-> elements, err |-> "index out of bounds"]
    ELSE [m_elements |-> RemoveAt(elements, index + 1), err |-> "none"]

\* array::erase(size_type)
array_erase(elements, index) ==
    IF index >= Len(elements)
    THEN [m_elements |-> elements, err |-> "index out of bounds"]
    ELSE [m_elements |-> RemoveAt(elements, index + 1), err |-> "none"]

\* array::size
array_size(elements) == Len(elements)

(***************************************************************************)
(* SpecArray: one array, built empty, under any sequence of calls with any *)
(* index of size_type.                                                     *)
(***************************************************************************)
size_type == 0..SizeTypeMax

ArrayCall(op, index, pre, r) == [op |-> op, index |-> index, pre |-> pre, err |-> r.err]

InitArray == IdleArray /\ IdleObject /\ IdlePair /\ IdleValue /\ IdleNumber /\ IdleDocument /\ IdleFactory /\ IdleParser /\ IdleSize /\ IdleClient /\ IdleContext /\ IdlePipeline

\* arr[index]
ArrayIndex(index) ==
    LET r == array_index(arr, index)
    IN /\ arr' = r.m_elements
       /\ alast' = ArrayCall("operator[]", index, arr, r)
       /\ UNCHANGED notArray

\* arr.at(index)
ArrayAt(index) ==
    LET r == array_at(arr, index)
    IN /\ arr' = r.m_elements
       /\ alast' = ArrayCall("at", index, arr, r)
       /\ UNCHANGED notArray

\* ref = v, for the reference the last operator[] or at returned
ArrayWriteRef(v) ==
    /\ alast.op \in {"operator[]", "at", "write"}
    /\ alast.err = "none"
    /\ arr' = [arr EXCEPT ![alast.index + 1] = v]
    /\ alast' = [alast EXCEPT !.op = "write", !.pre = arr]
    /\ UNCHANGED notArray

\* arr.erase(index)
ArrayErase(index) ==
    LET r == array_erase(arr, index)
    IN /\ arr' = r.m_elements
       /\ alast' = ArrayCall("erase", index, arr, r)
       /\ UNCHANGED notArray

NextArray ==
    \/ \E index \in size_type : ArrayIndex(index)
    \/ \E index \in size_type : ArrayAt(index)
    \/ \E v \in Values : ArrayWriteRef(v)
    \/ \E index \in size_type : ArrayErase(index)

SpecArray == InitArray /\ [][NextArray]_vars

\* what operator[](index) is to leave: the array grown to index + 1 with
\* Null in every new slot, or the array as it was
Grown(pre, index) ==
    IF index >= Len(pre)
    THEN [i \in 1..(index + 1) |-> IF i <= Len(pre) THEN pre[i] ELSE Null]
    ELSE pre

\* C7 as claimed: operator[](index) with index >= size grows the array to
\* exactly index + 1 elements, the new slots Null and the old elements kept;
\* with index < size it changes nothing.
C7_Original ==
    alast.op = "operator[]" => arr = Grown(alast.pre, alast.index)

\* C7: for every index below the largest value of the index type,
\* operator[](index) with index >= size grows the array to exactly index + 1
\* elements, the new slots Null and the old elements kept, and with
\* index < size it changes neither the size nor any element.
C7_Growth ==
    (alast.op = "operator[]" /\ alast.index < SizeTypeMax)
        => (alast.err = "none" /\ arr = Grown(alast.pre, alast.index))

\* C7 witness: operator[] has grown an array holding a non-Null element by
\* more than one slot.
C7_Witness ==
    /\ alast.op = "operator[]"
    /\ Len(alast.pre) >= 2
    /\ \E i \in 1..Len(alast.pre) : alast.pre[i] # Null
    /\ alast.index >= Len(alast.pre) + 2
    /\ Len(arr) = alast.index + 1

\* C8 as claimed: operator[](index) never fails, whatever the index.
C8_Original ==
    alast.op = "operator[]" => alast.err = "none"

\* C8: operator[](index) fails exactly for the largest value of the index
\* type, where the checked index + 1 overflows; the array is then unchanged.
C8_FailsOnlyOnOverflow ==
    alast.op = "operator[]" =>
        /\ alast.err = "none" <=> alast.index < SizeTypeMax
        /\ alast.err # "none" => (alast.err = "SafeIntException" /\ arr = alast.pre)

\* C8 witness: operator[] with the largest index has failed on a non-empty
\* array.
C8_Witness ==
    /\ alast.op = "operator[]"
    /\ alast.index = SizeTypeMax
    /\ alast.err = "SafeIntException"
    /\ Len(alast.pre) >= 1

\* C9: at(index) and erase(index) with index >= size fail with "index out of
\* bounds" and leave the array as it was; at never changes the array;
\* erase(index) with index < size removes that element and shifts the later
\* ones down by one.
C9_Bounds ==
    /\ (alast.op \in {"at", "erase"} /\ alast.index >= Len(alast.pre))
          => (alast.err = "index out of bounds" /\ arr = alast.pre)
    /\ alast.op = "at" => arr = alast.pre
    /\ (alast.op = "at" /\ alast.index < Len(alast.pre)) => alast.err = "none"
    /\ (alast.op = "erase" /\ alast.index < Len(alast.pre))
          => /\ alast.err = "none"
             /\ Len(arr) = Len(alast.pre) - 1
             /\ \A i \in 1..Len(arr) :
                   arr[i] = IF i <= alast.index THEN alast.pre[i] ELSE alast.pre[i + 1]

\* C9 witness: erase(size()) has failed on an array of two elements or more.
C9_Witness ==
    /\ alast.op = "erase"
    /\ alast.index = Len(alast.pre)
    /\ Len(alast.pre) >= 2
    /\ alast.err = "index out of bounds"

(***************************************************************************)
(* json::value.  A value holds m_value, a std::unique_ptr<_Value>: the     *)
(* address of the _Value object it owns.  The elements of an _Array and    *)
(* the fields of an _Object are values in turn.                            *)
(***************************************************************************)
\* the keys used in value trees: "a"
VKeys == {<<97>>}

\* the array index used in value trees (growth by more than one element and
\* the shift of later elements are SpecArray's subject)
VIndexes == {0}

\* details::_Boolean(true)
BooleanCell == Cell("Boolean", "true", <<>>, <<>>, FALSE)

\* details::_Array()
ArrayCell == Cell("Array", "none", <<>>, <<>>, FALSE)

\* details::_Object(fields, keep_order), no field
ObjectCell(keep_order) == Cell("Object", "none", <<>>, <<>>, keep_order)

\* the values the factory functions build: null(), boolean(true), array(),
\* object(true)
Scalars == {NullCell, BooleanCell}
Composites == {ArrayCell, ObjectCell(TRUE)}

\* the addresses the values of a _Value object hold
Children(c) ==
    {c.m_array[i] : i \in 1..Len(c.m_array)}
        \cup {c.m_object[i].second : i \in 1..Len(c.m_object)}

\* the _Value objects of the tree a value owns
RECURSIVE Reach(_, _)
Reach(h, p) == {p} \cup UNION {Reach(h, q) : q \in Children(h[p])}

FreeAddrs(h) == {x \in Addr : h[x].type = "Free"}

\* the number of _Value objects the two variables own
Live(h, r) == Cardinality(Reach(h, r.a) \cup Reach(h, r.b))

\* the allocator: the n lowest free addresses, in order
RECURSIVE Lowest(_, _)
Lowest(S, n) ==
    IF n = 0 THEN <<>>
    ELSE LET x == CHOOSE y \in S : \A z \in S : y <= z
         IN <<x>> \o Lowest(S \ {x}, n - 1)

Alloc(h, n) == Lowest(FreeAddrs(h), n)

\* ~value(): the unique_ptr deletes the tree it owns
Destroy(h, p) == [x \in Addr |-> IF x \in Reach(h, p) THEN FreeCell ELSE h[x]]

\* value(const value& other) : m_value(other.m_value->_copy_value()); to is
\* where each object of the tree copied is allocated
value_copy(p, to) == to[p]

\* _Array::_copy_value that copies the element pointers, not the elements
Array_copy_value_shallow(c, to) == c

\* _Array::_copy_value: make_unique<_Array>(*this) copies m_array, element
\* by element, with the copy constructor of value
Array_copy_value(c, to) ==
    [c EXCEPT !.m_array = [i \in 1..Len(c.m_array) |-> value_copy(c.m_array[i], to)]]

\* _Object::_copy_value: make_unique<_Object>(*this) copies m_object, field
\* by field, and its m_keep_order
Object_copy_value(c, to) ==
    [c EXCEPT !.m_object = [i \in 1..Len(c.m_object) |->
        Pair(c.m_object[i].first, value_copy(c.m_object[i].second, to))]]

\* _Value::_copy_value, by dynamic type
copy_value(c, to) ==
    IF c.type = "Array" THEN Array_copy_value(c, to)
    ELSE IF c.type = "Object" THEN Object_copy_value(c, to)
    ELSE c

\* the heap after copying the tree at p, and the address of the copy
CopyTree(h, p) ==
    LET R == Reach(h, p)
        fresh == Alloc(h, Cardinality(R))
        rank(x) == Cardinality({y \in R : y <= x})
        to == [x \in R |-> fresh[rank(x)]]
    IN [heap |-> [x \in Addr |->
                    IF \E r \in R : to[r] = x
                    THEN copy_value(h[CHOOSE r \in R : to[r] = x], to)
                    ELSE h[x]],
        ptr |-> to[p]]

\* an operand of value::operator[] / at / erase: an index or a key
IndexStep(i) == [kind |-> "index", index |-> i, key |-> <<>>]
KeyStep(k) == [kind |-> "key", index |-> 0, key |-> k]
Steps == {IndexStep(i) : i \in VIndexes} \cup {KeyStep(k) : k \in VKeys}

AsObject(c) == [m_elements |-> c.m_object, m_keep_order |-> c.m_keep_order]

\* value::at(index) / value::at(key): the address the element or field
\* holds, 0 when the call throws
value_at(h, p, step) ==
    LET c == h[p]
    IN IF c.type = "Array" /\ step.kind = "index"
       THEN IF array_at(c.m_array, step.index).err = "none"
            THEN c.m_array[step.index + 1] ELSE 0
       ELSE IF c.type = "Object" /\ step.kind = "key"
       THEN LET r == object_at(AsObject(c), step.key)
            IN IF r.err = "none" THEN c.m_object[r.ret].second ELSE 0
       ELSE 0

\* v.at(s1).at(s2)...: the address reached, 0 when a call throws
RECURSIVE Navigate(_, _, _)
Navigate(h, p, path) ==
    IF path = <<>> THEN p
    ELSE LET q == value_at(h, p, Head(path))
         IN IF q = 0 THEN 0 ELSE Navigate(h, q, Tail(path))

\* value::operator[](index) -> _Array::index -> m_array[index], and
\* value::operator[](key) -> _Object::index -> m_object[key], on the object at
\* p: the heap after the call, every value() the container created being a
\* new _Null, and the position of the element or field returned
value_index(h, p, step) ==
    LET c == h[p]
    IN IF c.type = "Array" /\ step.kind = "index"
       THEN LET r == array_index(c.m_array, step.index)
                n == Len(r.m_elements) - Len(c.m_array)
                fresh == Alloc(h, n)
                grown == [i \in 1..Len(r.m_elements) |->
                            IF i <= Len(c.m_array) THEN c.m_array[i]
                            ELSE fresh[i - Len(c.m_array)]]
            IN [heap |-> [x \in Addr |->
                            IF x = p THEN [c EXCEPT !.m_array = grown]
                            ELSE IF \E i \in 1..n : fresh[i] = x THEN NullCell
                            ELSE h[x]],
                pos |-> step.index + 1, err |-> r.err]
       ELSE IF c.type = "Object" /\ step.kind = "key"
       THEN LET r == object_index(AsObject(c), step.key)
                n == Len(r.m_elements) - Len(c.m_object)
                fresh == Alloc(h, n)
                grown == IF n = 0 THEN r.m_elements
                         ELSE [r.m_elements EXCEPT ![r.ret].second = fresh[1]]
            IN [heap |-> [x \in Addr |->
                            IF x = p THEN [c EXCEPT !.m_object = grown]
                            ELSE IF \E i \in 1..n : fresh[i] = x THEN NullCell
                            ELSE h[x]],
                pos |-> r.ret, err |-> r.err]
       ELSE [heap |-> h, pos |-> 0,
             err |-> IF step.kind = "index" THEN "not an array" ELSE "not an object"]

\* the address the element or field at position pos of the object at p holds
SlotOf(h, p, pos) ==
    IF h[p].type = "Array" THEN h[p].m_array[pos] ELSE h[p].m_object[pos].second

\* the object at p with the element or field at position pos holding q
WithSlot(c, pos, q) ==
    IF c.type = "Array" THEN [c EXCEPT !.m_array[pos] = q]
    ELSE [c EXCEPT !.m_object[pos].second = q]

\* slot = v, for the element or field at position pos of the object at p:
\* the new _Value is built, the slot's unique_ptr takes it and deletes the
\* tree it owned
assign_slot(h, p, pos, v) ==
    LET q == Alloc(h, 1)[1]
        old == SlotOf(h, p, pos)
        h1 == [h EXCEPT ![q] = v, ![p] = WithSlot(h[p], pos, q)]
    IN [x \in Addr |-> IF x \in Reach(h, old) THEN FreeCell ELSE h1[x]]

\* value::erase(index) / value::erase(key) on the object at p: the element
\* or field is destroyed and removed
value_erase(h, p, step) ==
    LET c == h[p]
        q == value_at(h, p, step)
    IN IF q = 0 THEN h
       ELSE LET h1 == Destroy(h, q)
            IN IF c.type = "Array"
               THEN [h1 EXCEPT ![p].m_array = array_erase(c.m_array, step.index).m_elements]
               ELSE [h1 EXCEPT ![p].m_object = object_erase(AsObject(c), step.key).m_elements]

\* the tree a value owns, as a term: what == compares, and the mode
RECURSIVE Tree(_, _)
Tree(h, p) ==
    LET c == h[p]
    IN [type |-> c.type, m_value |-> c.m_value, m_keep_order |-> c.m_keep_order,
        children |->
            IF c.type = "Array"
            THEN [i \in 1..Len(c.m_array) |-> Pair(<<>>, Tree(h, c.m_array[i]))]
            ELSE [i \in 1..Len(c.m_object) |->
                    Pair(c.m_object[i].first, Tree(h, c.m_object[i].second))]]

\* the values of a _Value object, in storage order
ChildSeq(c) ==
    IF c.type = "Array" THEN c.m_array
    ELSE [i \in 1..Len(c.m_object) |-> c.m_object[i].second]

\* the objects of a tree in the order a walk from p meets them
RECURSIVE Visit(_, _)
RECURSIVE VisitAll(_, _)
Visit(h, p) == <<p>> \o VisitAll(h, ChildSeq(h[p]))
VisitAll(h, ps) ==
    IF ps = <<>> THEN <<>> ELSE Visit(h, Head(ps)) \o VisitAll(h, Tail(ps))

\* Which addresses the allocator returns is immaterial: after each statement
\* the objects are renamed in the order a walk of a, then of b, meets them
\* (pointers are renamed with them, so objects that are shared stay shared).
Normalize(h, r) ==
    LET walk == Visit(h, r.a) \o Visit(h, r.b)
        met == {walk[i] : i \in 1..Len(walk)}
        first == [x \in met |-> CHOOSE i \in 1..Len(walk) :
                                    walk[i] = x /\ \A j \in 1..(i - 1) : walk[j] # x]
        name == [x \in Addr |->
                    IF x \in met
                    THEN Cardinality({y \in met : first[y] <= first[x]})
                    ELSE Cardinality(met) + Cardinality({y \in Addr \ met : y <= x})]
        from == [x \in Addr |-> CHOOSE y \in Addr : name[y] = x]
        moved(c) == [c EXCEPT !.m_array = [i \in 1..Len(c.m_array) |-> name[c.m_array[i]]],
                              !.m_object = [i \in 1..Len(c.m_object) |->
                                  Pair(c.m_object[i].first, name[c.m_object[i].second])]]
    IN [heap |-> [x \in Addr |-> moved(h[from[x]])],
        roots |-> [a |-> name[r.a], b |-> name[r.b]]]

(***************************************************************************)
(* SpecValue: two values, a and b, built and changed by indexed and keyed  *)
(* writes and erases at any depth, copied and moved into one another.      *)
(***************************************************************************)
Names == {"a", "b"}
Other(n) == IF n = "a" THEN "b" ELSE "a"

\* the paths to a container: the root, or an element or field of the root
Paths == {<<>>} \cup {<<s>> : s \in Steps}

Statement(op, n) ==
    [op |-> op, target |-> n, other |-> <<Tree(heap, roots[Other(n)])>>, after |-> snap]

Changed(n) == IF snap = "none" THEN "none" ELSE "changed"

InitValue == IdleValue /\ IdleObject /\ IdlePair /\ IdleArray /\ IdleNumber /\ IdleDocument /\ IdleFactory /\ IdleParser /\ IdleSize /\ IdleClient /\ IdleContext /\ IdlePipeline

\* n.at(..)[step] = v
Write(n, path, step, v) ==
    LET p == Navigate(heap, roots[n], path)
    IN /\ p # 0
       /\ path # <<>> => v \in Scalars
       /\ \E r \in {value_index(heap, p, step)} :
             /\ r.err = "none"
             /\ \E st \in {Normalize(assign_slot(r.heap, p, r.pos, v), roots)} :
                   /\ Live(st.heap, st.roots) <= MaxCells
                   /\ heap' = st.heap
                   /\ roots' = st.roots
       /\ vlast' = Statement("write", n)
       /\ snap' = Changed(n)
       /\ UNCHANGED notValue

\* n.at(..).erase(step)
Erase(n, path, step) ==
    LET p == Navigate(heap, roots[n], path)
    IN /\ p # 0
       /\ value_at(heap, p, step) # 0
       /\ LET st == Normalize(value_erase(heap, p, step), roots)
          IN heap' = st.heap /\ roots' = st.roots
       /\ vlast' = Statement("erase", n)
       /\ snap' = Changed(n)
       /\ UNCHANGED notValue

\* a = v, v from a factory function
Assign(v) ==
    /\ LET q == Alloc(heap, 1)[1]
           st == Normalize([x \in Addr |-> IF x \in Reach(heap, roots.a) THEN FreeCell
                                           ELSE IF x = q THEN v ELSE heap[x]],
                           [roots EXCEPT !.a = q])
       IN heap' = st.heap /\ roots' = st.roots
    /\ vlast' = Statement("assign", "a")
    /\ snap' = Changed("a")
    /\ UNCHANGED notValue

\* n = Other(n): value& operator=(const value&), the copy is made and then
\* the tree n owned is deleted
Copy(n) ==
    LET src == roots[Other(n)]
        r == CopyTree(heap, src)
    IN /\ LET st == Normalize([x \in Addr |-> IF x \in Reach(heap, roots[n]) THEN FreeCell
                                              ELSE r.heap[x]],
                              [roots EXCEPT ![n] = r.ptr])
          IN /\ Live(st.heap, st.roots) <= MaxCells
             /\ heap' = st.heap
             /\ roots' = st.roots
       /\ vlast' = Statement("copy", n)
       /\ snap' = "copied"
       /\ UNCHANGED notValue

\* n = std::move(Other(n)): n takes the tree and deletes the one it owned;
\* the source is left as a null value
Move(n) ==
    LET src == roots[Other(n)]
        h1 == Destroy(heap, roots[n])
        q == Alloc(h1, 1)[1]
        st == Normalize([h1 EXCEPT ![q] = NullCell],
                        [roots EXCEPT ![n] = src, ![Other(n)] = q])
    IN /\ heap' = st.heap
       /\ roots' = st.roots
       /\ vlast' = Statement("move", n)
       /\ snap' = NoCopy
       /\ UNCHANGED notValue

NextValue ==
    \/ \E n \in Names, path \in Paths, step \in Steps, v \in Scalars \cup Composites :
          Write(n, path, step, v)
    \/ \E n \in Names, path \in Paths, step \in Steps : Erase(n, path, step)
    \/ \E v \in Scalars \cup Composites : Assign(v)
    \/ \E n \in Names : Copy(n)
    \/ \E n \in Names : Move(n)

SpecValue == InitValue /\ [][NextValue]_vars

\* the tree of variable n
TreeOf(n) == Tree(heap, roots[n])

\* the tree of a null value
NullTree == [type |-> "Null", m_value |-> "none", m_keep_order |-> FALSE, children |-> <<>>]

\* the type of the value two levels below the root of tree t, by first
\* elements or fields; "none" when there is none
Grandchild(t) ==
    IF Len(t.children) = 0 THEN "none"
    ELSE IF Len(t.children[1].second.children) = 0 THEN "none"
    ELSE t.children[1].second.children[1].second.type

int32_t == (0 - 2^(Bits32 - 1))..(2^(Bits32 - 1) - 1)
uint32_t == 0..(2^Bits32 - 1)
int64_t == (0 - 2^(Bits64 - 1))..(2^(Bits64 - 1) - 1)
uint64_t == 0..(2^Bits64 - 1)

\* a double: NaN, or sign and magnitude in halves
Double(nan, neg, halves) == [nan |-> nan, neg |-> neg, halves |-> halves]
NaN == Double(TRUE, FALSE, 0)
PlusZero == Double(FALSE, FALSE, 0)
Doubles == {NaN} \cup {Double(FALSE, neg, h) : neg \in BOOLEAN, h \in 0..MaxHalves}

\* double == double: NaN equals nothing, the two zeros are equal
double_eq(a, b) ==
    /\ ~a.nan
    /\ ~b.nan
    /\ a.halves = b.halves
    /\ (a.neg = b.neg \/ a.halves = 0)

\* the conversion of an integer to a 64-bit integer type keeps it modulo 2^64
Bits(v) == v % 2^Bits64

\* the bits of a 64-bit integer read as int64_t
AsSigned(bits) == IF bits >= 2^(Bits64 - 1) THEN bits - 2^Bits64 ELSE bits

Number(m_type, m_uintval, m_value) ==
    [m_type |-> m_type, m_uintval |-> m_uintval, m_value |-> m_value]

m_intval(n) == AsSigned(n.m_uintval)

\* number(double value)
number_double(value) == Number("double_type", 0, value)

\* number(int32_t value)
number_int32(value) ==
    Number(IF value < 0 THEN "signed_type" ELSE "unsigned_type", Bits(value), PlusZero)

\* number(uint32_t value)
number_uint32(value) == Number("unsigned_type", Bits(value), PlusZero)

\* number(uint64_t value)
number_uint64(value) == Number("unsigned_type", Bits(value), PlusZero)

\* number(int64_t value) with the tag of number(uint64_t value)
number_int64_unsigned(value) == number_uint64(value)

\* number(int64_t value)
number_int64(value) ==
    Number(IF value < 0 THEN "signed_type" ELSE "unsigned_type", Bits(value), PlusZero)

\* number::is_uint64
is_uint64(n) ==
    IF n.m_type = "signed_type" THEN m_intval(n) >= 0
    ELSE IF n.m_type = "unsigned_type" THEN TRUE
    ELSE FALSE

\* number::is_integral
is_integral(n) == n.m_type # "double_type"

\* static_cast of a double to an integer type with the values T: the value
\* truncated toward zero; undefined (any value of T) when that is not in T
double_cast(d, T) ==
    LET t == IF d.neg THEN 0 - (d.halves \div 2) ELSE d.halves \div 2
    IN IF ~d.nan /\ t \in T THEN {t} ELSE T

\* number::to_int64 that returns the bits as they are
to_int64_unwrapped(n) == {n.m_uintval}

\* number::to_int64: the values the call can return
to_int64(n) ==
    IF n.m_type = "double_type" THEN double_cast(n.m_value, int64_t)
    ELSE {m_intval(n)}

\* number::to_uint64: the values the call can return
to_uint64(n) ==
    IF n.m_type = "double_type" THEN double_cast(n.m_value, uint64_t)
    ELSE {Bits(m_intval(n))}

\* number::operator== that compares the bits whatever the tags
number_eq_untagged(a, b) == a.m_uintval = b.m_uintval

\* number::operator==
number_eq(a, b) ==
    IF a.m_type # b.m_type THEN FALSE
    ELSE IF a.m_type = "signed_type" THEN m_intval(a) = m_intval(b)
    ELSE IF a.m_type = "unsigned_type" THEN a.m_uintval = b.m_uintval
    ELSE double_eq(a.m_value, b.m_value)

(***************************************************************************)
(* SpecNumber: two numbers, x and y, built by any constructor from any     *)
(* value of its parameter type, and the calls made on them.                *)
(***************************************************************************)
Slots == {"x", "y"}
IntegerCtors == {"int32_t", "uint32_t", "int64_t", "uint64_t"}

\* the values an integer constructor takes
Sources(c) ==
    IF c = "int32_t" THEN int32_t
    ELSE IF c = "uint32_t" THEN uint32_t
    ELSE IF c = "int64_t" THEN int64_t
    ELSE uint64_t

\* overload resolution
construct(c, v) ==
    IF c = "int32_t" THEN number_int32(v)
    ELSE IF c = "uint32_t" THEN number_uint32(v)
    ELSE IF c = "int64_t" THEN number_int64(v)
    ELSE number_uint64(v)

\* the numbers that can be built, each with the call that builds it
Built ==
    UNION {{[n |-> construct(c, v), ctor |-> c, src |-> v, dsrc |-> PlusZero] :
                v \in Sources(c)} : c \in IntegerCtors}
        \cup {[n |-> number_double(d), ctor |-> "double", src |-> 0, dsrc |-> d] :
                d \in Doubles}

NumberCall(op, s, ret) == [op |-> op, slot |-> s, ret |-> ret]

IdleOfNumber == IdleObject /\ IdlePair /\ IdleArray /\ IdleValue /\ IdleDocument /\ IdleFactory /\ IdleParser /\ IdleSize /\ IdleClient /\ IdleContext /\ IdlePipeline

InitNumber ==
    /\ nums \in [Slots -> Built]
    /\ nlast = NumberCall("none", "x", 0)
    /\ IdleOfNumber

\* x == y
NumberEqual ==
    /\ nlast' = NumberCall("==", "x", IF number_eq(nums.x.n, nums.y.n) THEN 1 ELSE 0)
    /\ UNCHANGED <<nums, notNumber>>

\* s.is_uint64()
IsUint64(s) ==
    /\ nlast' = NumberCall("is_uint64", s, IF is_uint64(nums[s].n) THEN 1 ELSE 0)
    /\ UNCHANGED <<nums, notNumber>>

\* s.to_uint64()
ToUint64(s) ==
    /\ \E r \in to_uint64(nums[s].n) : nlast' = NumberCall("to_uint64", s, r)
    /\ UNCHANGED <<nums, notNumber>>

\* s.to_int64()
ToInt64(s) ==
    /\ \E r \in to_int64(nums[s].n) : nlast' = NumberCall("to_int64", s, r)
    /\ UNCHANGED <<nums, notNumber>>

NextNumber ==
    \/ NumberEqual
    \/ \E s \in Slots : IsUint64(s)
    \/ \E s \in Slots : ToUint64(s)
    \/ \E s \in Slots : ToInt64(s)

SpecNumber == InitNumber /\ [][NextNumber]_vars

\* C11: a number built by an integer constructor is tagged signed_type exactly
\* when the source integer is negative and unsigned_type exactly when it is
\* not; one built from a double is tagged double_type; no number is tagged
\* signed_type with a non-negative stored value; and no call changes a number.
C11_TagFollowsSign ==
    /\ [](\A s \in Slots :
            LET e == nums[s]
            IN /\ e.ctor \in IntegerCtors =>
                    /\ e.n.m_type = "signed_type" <=> e.src < 0
                    /\ e.n.m_type = "unsigned_type" <=> e.src >= 0
               /\ e.ctor = "double" => e.n.m_type = "double_type"
               /\ ~(e.n.m_type = "signed_type" /\ m_intval(e.n) >= 0))
    /\ [][nums' = nums]_vars

\* C11 witness: x was built from a negative int64_t and y from a non-negative
\* one, and a conversion has been called on x.
C11_Witness ==
    /\ nums.x.ctor = "int64_t"
    /\ nums.x.src < 0
    /\ nums.x.n.m_type = "signed_type"
    /\ nums.y.ctor = "int64_t"
    /\ nums.y.src >= 0
    /\ nums.y.n.m_type = "unsigned_type"
    /\ nlast.op = "to_uint64"
    /\ nlast.slot = "x"

\* twice the number a double that is not NaN stands for
Halves(d) == IF d.neg THEN 0 - d.halves ELSE d.halves

\* same tag and same stored value
SameStored(a, b) ==
    /\ a.m_type = b.m_type
    /\ IF a.m_type = "double_type"
       THEN /\ a.m_value.nan = b.m_value.nan
            /\ a.m_value.nan \/ Halves(a.m_value) = Halves(b.m_value)
       ELSE a.m_uintval = b.m_uintval

\* C12 as stated: x == y exactly when x and y have the same tag and the same
\* stored value.
C12_Original ==
    nlast.op = "==" => (nlast.ret = 1 <=> SameStored(nums.x.n, nums.y.n))

\* C12: numbers with different tags are unequal; two numbers with the same
\* integer tag are equal exactly when they store the same value; two doubles
\* are equal exactly when neither is NaN and they stand for the same number;
\* two numbers built by integer constructors are equal exactly when their
\* source integers are.
C12_Equality ==
    nlast.op = "==" =>
        LET x == nums.x
            y == nums.y
            equal == nlast.ret = 1
        IN /\ x.n.m_type # y.n.m_type => ~equal
           /\ x.n.m_type = y.n.m_type /\ x.n.m_type # "double_type" =>
                (equal <=> x.n.m_uintval = y.n.m_uintval)
           /\ x.n.m_type = "double_type" /\ y.n.m_type = "double_type" =>
                (equal <=> /\ ~x.dsrc.nan
                           /\ ~y.dsrc.nan
                           /\ Halves(x.dsrc) = Halves(y.dsrc))
           /\ x.ctor \in IntegerCtors /\ y.ctor \in IntegerCtors =>
                (equal <=> x.src = y.src)

\* C12 witness: an int32_t and a uint64_t of the same value have compared
\* equal.
C12_Witness ==
    /\ nlast.op = "=="
    /\ nlast.ret = 1
    /\ nums.x.ctor = "int32_t"
    /\ nums.y.ctor = "uint64_t"
    /\ nums.x.src = nums.y.src

\* C13: for a number built from a 64-bit integer, is_uint64() is true exactly
\* when the source is non-negative; to_uint64() then returns the source, and
\* for a negative source it returns the source modulo 2^64; to_int64() of an
\* unsigned number above the largest int64_t returns the value less 2^64.
C13_Conversions ==
    LET e == nums[nlast.slot]
    IN e.ctor \in {"int64_t", "uint64_t"} =>
          /\ nlast.op = "is_uint64" => (nlast.ret = 1 <=> e.src >= 0)
          /\ nlast.op = "to_uint64" =>
                nlast.ret = IF e.src >= 0 THEN e.src ELSE e.src + 2^Bits64
          /\ nlast.op = "to_int64" /\ e.src > 2^(Bits64 - 1) - 1 =>
                nlast.ret = e.src - 2^Bits64

\* C13 witness: to_int64() was called on a number built from a uint64_t
\* above the largest int64_t and returned a negative value.
C13_Witness ==
    /\ nlast.op = "to_int64"
    /\ nums[nlast.slot].ctor = "uint64_t"
    /\ nums[nlast.slot].src > 2^(Bits64 - 1) - 1
    /\ nlast.ret < 0

(***************************************************************************)
(* json::value as a tree: the conversions, the deprecated accessors,       *)
(* equality and serialization, which read the tree and leave it as it is.  *)
(***************************************************************************)
BoolV(b) == [NullV EXCEPT !.type = "Boolean", !.m_value = b]
NumberV(n) == [NullV EXCEPT !.type = "Number", !.m_number = n]
StringV(str, escaped_chars) ==
    [NullV EXCEPT !.type = "String", !.m_string = str, !.m_has_escape_char = escaped_chars]
ArrayV(elements) == [NullV EXCEPT !.type = "Array", !.m_array = elements]
ObjectV(o) == [NullV EXCEPT !.type = "Object", !.m_object = o]

\* static_cast<int32_t> of a 64-bit integer: the low 32 bits, read as signed
Int32Of(v) ==
    LET b == v % 2^Bits32
    IN IF b >= 2^(Bits32 - 1) THEN b - 2^Bits32 ELSE b

\* static_cast<double> of an integer (exact at the magnitudes of the model)
DoubleOf(v) == Double(FALSE, v < 0, IF v < 0 THEN 0 - 2 * v ELSE 2 * v)

\* number::to_int32: the values the call can return
to_int32(n) ==
    IF n.m_type = "double_type" THEN double_cast(n.m_value, int32_t)
    ELSE {Int32Of(m_intval(n))}

\* number::to_double
to_double(n) ==
    IF n.m_type = "double_type" THEN n.m_value
    ELSE IF n.m_type = "signed_type" THEN DoubleOf(m_intval(n))
    ELSE DoubleOf(n.m_uintval)

\* the outcome of a call: the message of the json_exception thrown, or "none"
\* and what is returned (a bool, a number or a string as the value holding it)
Result(err, ret) == [err |-> err, ret |-> ret]
Throw(message) == {Result(message, NullV)}

\* as_bool that takes a null value for false
as_bool_lenient(v) ==
    IF v.type \in {"Boolean", "Null"} THEN {Result("none", BoolV(v.m_value))}
    ELSE Throw("not a boolean")

\* _Value::as_bool, overridden by _Boolean
as_bool(v) ==
    IF v.type = "Boolean" THEN {Result("none", BoolV(v.m_value))}
    ELSE Throw("not a boolean")

\* _Value::as_number, overridden by _Number
as_number(v) ==
    IF v.type = "Number" THEN {Result("none", NumberV(v.m_number))}
    ELSE Throw("not a number")

\* _Value::as_double, overridden by _Number
as_double(v) ==
    IF v.type = "Number" THEN {Result("none", NumberV(number_double(to_double(v.m_number))))}
    ELSE Throw("not a number")

\* _Value::as_integer, overridden by _Number
as_integer(v) ==
    IF v.type = "Number"
    THEN {Result("none", NumberV(number_int32(r))) : r \in to_int32(v.m_number)}
    ELSE Throw("not a number")

\* _Value::as_array, overridden by _Array
as_array(v) ==
    IF v.type = "Array" THEN {Result("none", v)} ELSE Throw("not an array")

\* _Value::as_object, overridden by _Object
as_object(v) ==
    IF v.type = "Object" THEN {Result("none", v)} ELSE Throw("not an object")

\* _Value::as_string, overridden by _UTF8String
as_string(v) ==
    IF v.type = "String" THEN {Result("none", StringV(v.m_string, v.m_has_escape_char))}
    ELSE Throw("not a string")

Conversions ==
    {"as_double", "as_integer", "as_number", "as_bool", "as_array", "as_object", "as_string"}

\* value::as_...(): m_value->as_...()
as(op, v) ==
    IF op = "as_double" THEN as_double(v)
    ELSE IF op = "as_integer" THEN as_integer(v)
    ELSE IF op = "as_number" THEN as_number(v)
    ELSE IF op = "as_bool" THEN as_bool(v)
    ELSE IF op = "as_array" THEN as_array(v)
    ELSE IF op = "as_object" THEN as_object(v)
    ELSE as_string(v)

\* value::operator== and the is_equal of _Array and _Object it calls for two
\* values of these kinds
RECURSIVE value_eq(_, _)

\* _Array::is_equal
Array_is_equal(a, b) ==
    IF Len(a.m_array) # Len(b.m_array) THEN FALSE
    ELSE \A i \in 1..Len(a.m_array) : ~(~value_eq(a.m_array[i], b.m_array[i]))

\* std::pair operator==
pair_eq(p, q) == p.first = q.first /\ value_eq(p.second, q.second)

\* _Object::is_equal that ignores the order of the fields
Object_is_equal_unordered(a, b) ==
    LET x == a.m_object.m_elements
        y == b.m_object.m_elements
    IN IF Len(x) # Len(y) THEN FALSE
       ELSE \A i \in 1..Len(x) : \E j \in 1..Len(y) : pair_eq(x[i], y[j])

\* _Object::is_equal: the sizes, then std::equal over the two storages
Object_is_equal(a, b) ==
    LET x == a.m_object.m_elements
        y == b.m_object.m_elements
    IN IF Len(x) # Len(y) THEN FALSE
       ELSE \A i \in 1..Len(x) : pair_eq(x[i], y[i])

value_eq(a, b) ==
    IF a.type # b.type THEN FALSE
    ELSE IF a.type = "Null" THEN TRUE
    ELSE IF a.type = "Boolean" THEN a.m_value = b.m_value
    ELSE IF a.type = "Number" THEN number_eq(a.m_number, b.m_number)
    ELSE IF a.type = "String" THEN a.m_string = b.m_string
    ELSE IF a.type = "Array" THEN Array_is_equal(a, b)
    ELSE Object_is_equal(a, b)

\* Serialization writes bytes: " is 34, , is 44, - is 45, . is 46, 0 is 48,
\* : is 58, [ is 91, \ is 92, ] is 93, { is 123, } is 125.
RECURSIVE Decimal(_)
Decimal(v) ==
    IF v < 10 THEN <<48 + v>> ELSE Decimal(v \div 10) \o <<48 + (v % 10)>>

\* _Number::serialize_impl: an integer in decimal; a double with its
\* fraction, .0 or .5 here, and NaN as the bytes of nan
Number_serialize_impl(n) ==
    IF n.m_type = "signed_type" THEN <<45>> \o Decimal(0 - m_intval(n))
    ELSE IF n.m_type = "unsigned_type" THEN Decimal(n.m_uintval)
    ELSE IF n.m_value.nan THEN <<110, 97, 110>>
    ELSE (IF n.m_value.neg THEN <<45>> ELSE <<>>)
            \o Decimal(n.m_value.halves \div 2)
            \o <<46, 48 + 5 * (n.m_value.halves % 2)>>

\* append_escape_string: the quote, the backslash and the control characters
\* (the line feed here) are written as escape sequences
RECURSIVE append_escape_string(_)
append_escape_string(str) ==
    IF str = <<>> THEN <<>>
    ELSE (IF Head(str) = 34 THEN <<92, 34>>
          ELSE IF Head(str) = 92 THEN <<92, 92>>
          ELSE IF Head(str) = 10 THEN <<92, 110>>
          ELSE <<Head(str)>>) \o append_escape_string(Tail(str))

\* format_string: the key, escaped, between quotes
format_string(key) == <<34>> \o append_escape_string(key) \o <<34>>

\* _UTF8String::serialize_impl: the string between quotes, escaped only if
\* m_has_escape_char says it has characters to escape
UTF8String_serialize_impl(v) ==
    <<34>> \o (IF v.m_has_escape_char THEN append_escape_string(v.m_string) ELSE v.m_string)
           \o <<34>>

\* value::format: m_value->serialize_impl(str)
RECURSIVE format(_)

\* the loop of _Array::serialize_impl from element i up to lastElement
RECURSIVE ArrayLoop(_, _)
ArrayLoop(e, i) ==
    IF i >= Len(e) THEN <<>> ELSE format(e[i]) \o <<44>> \o ArrayLoop(e, i + 1)

\* _Array::serialize_impl that writes a comma after every element
Array_serialize_impl_trailing(v) ==
    <<91>> \o ArrayLoop(v.m_array \o <<NullV>>, 1) \o <<93>>

\* _Array::serialize_impl
Array_serialize_impl(v) ==
    LET e == v.m_array
    IN <<91>>
        \o (IF e # <<>> THEN ArrayLoop(e, 1) \o format(e[Len(e)]) ELSE <<>>)
        \o <<93>>

\* the loop of _Object::serialize_impl from field i up to lastElement
RECURSIVE ObjectLoop(_, _)
ObjectLoop(e, i) ==
    IF i >= Len(e) THEN <<>>
    ELSE format_string(e[i].first) \o <<58>> \o format(e[i].second) \o <<44>>
            \o ObjectLoop(e, i + 1)

\* _Object::serialize_impl that writes no comma between the fields
Object_serialize_impl_unseparated(v) ==
    LET e == v.m_object.m_elements
        field(i) == format_string(e[i].first) \o <<58>> \o format(e[i].second)
    IN <<123>>
        \o (IF Len(e) = 0 THEN <<>>
            ELSE IF Len(e) = 1 THEN field(1)
            ELSE IF Len(e) = 2 THEN field(1) \o field(2)
            ELSE field(1) \o field(2) \o field(3))
        \o <<125>>

\* _Object::serialize_impl
Object_serialize_impl(v) ==
    LET e == v.m_object.m_elements
    IN <<123>>
        \o (IF e # <<>>
            THEN ObjectLoop(e, 1) \o format_string(e[Len(e)].first) \o <<58>>
                    \o format(e[Len(e)].second)
            ELSE <<>>)
        \o <<125>>

format(v) ==
    IF v.type = "Null" THEN <<110, 117, 108, 108>>
    ELSE IF v.type = "Boolean"
    THEN (IF v.m_value THEN <<116, 114, 117, 101>> ELSE <<102, 97, 108, 115, 101>>)
    ELSE IF v.type = "Number" THEN Number_serialize_impl(v.m_number)
    ELSE IF v.type = "String" THEN UTF8String_serialize_impl(v)
    ELSE IF v.type = "Array" THEN Array_serialize_impl(v)
    ELSE Object_serialize_impl(v)

\* value::serialize
serialize(v) == format(v)

\* _Value::get_field and _Value::get_element, which no class overrides
get_field(v, key) == Throw("not an object")
get_element(v, index) == Throw("not an array")

\* value::get(key): m_value->get_field(to_utf8string(key)), the key being
\* UTF-8 already; value::get(index): m_value->get_element(index)
get_key(v, key) == get_field(v, key)
get_index(v, index) == get_element(v, index)

(***************************************************************************)
(* SpecDocument: a value of any kind, and the reading calls made on it.    *)
(***************************************************************************)
DKeys == {<<97>>, <<98>>}

\* the elements and field values of the arrays and objects drawn
Kids == {BoolV(TRUE), ArrayV(<<NullV>>)}

ScalarDocs ==
    {NullV, BoolV(TRUE), BoolV(FALSE), NumberV(number_int32(0 - 1)),
     NumberV(number_double(Double(FALSE, FALSE, MaxHalves))), StringV(<<97>>, FALSE)}

ArrayDocs == {ArrayV(e) : e \in UNION {[1..n -> Kids] : n \in 0..MaxKids}}

Fields == UNION {[1..n -> {Pair(k, v) : k \in DKeys, v \in Kids}] : n \in 0..MaxKids}

ObjectDocs ==
    {ObjectV(o) : o \in UNION {object_ctor(f, keep_order) : f \in Fields, keep_order \in BOOLEAN}}

\* an array that holds an object, and an object that holds an object
NestedDocs ==
    LET inner == ObjectV([m_elements |-> <<Pair(<<97>>, NullV)>>, m_keep_order |-> FALSE])
    IN {ArrayV(<<inner>>),
        ObjectV([m_elements |-> <<Pair(<<98>>, inner)>>, m_keep_order |-> TRUE])}

Docs == ScalarDocs \cup ArrayDocs \cup ObjectDocs \cup NestedDocs

DocCall(op, key, index, other, r, out) ==
    [op |-> op, key |-> key, index |-> index, other |-> other,
     err |-> r.err, ret |-> r.ret, out |-> out]

IdleOfDocument == IdleObject /\ IdlePair /\ IdleArray /\ IdleValue /\ IdleNumber /\ IdleFactory /\ IdleParser /\ IdleSize /\ IdleClient /\ IdleContext /\ IdlePipeline

InitDocument ==
    /\ doc \in Docs
    /\ dlast = NoDocCall
    /\ IdleOfDocument

\* doc.as_double(), doc.as_integer(), ...
As(op) ==
    /\ \E r \in as(op, doc) : dlast' = DocCall(op, <<>>, 0, <<>>, r, <<>>)
    /\ UNCHANGED <<doc, notDocument>>

\* doc == other
Equal(other) ==
    /\ dlast' = DocCall("==", <<>>, 0, <<other>>,
                        Result("none", BoolV(value_eq(doc, other))), <<>>)
    /\ UNCHANGED <<doc, notDocument>>

\* doc.serialize()
Serialize ==
    /\ dlast' = DocCall("serialize", <<>>, 0, <<>>, Result("none", NullV), serialize(doc))
    /\ UNCHANGED <<doc, notDocument>>

\* doc.get(key)
GetKey(key) ==
    /\ \E r \in get_key(doc, key) : dlast' = DocCall("get(key)", key, 0, <<>>, r, <<>>)
    /\ UNCHANGED <<doc, notDocument>>

\* doc.get(index)
GetIndex(index) ==
    /\ \E r \in get_index(doc, index) : dlast' = DocCall("get(index)", <<>>, index, <<>>, r, <<>>)
    /\ UNCHANGED <<doc, notDocument>>

NextDocument ==
    \/ \E op \in Conversions : As(op)
    \/ \E key \in DKeys : GetKey(key)
    \/ \E index \in 0..MaxKids : GetIndex(index)
    \/ Serialize
    \/ \E other \in Docs : Equal(other)

SpecDocument == InitDocument /\ [][NextDocument]_vars

\* the kind a conversion is for, and the exception it throws on another
Target(op) ==
    IF op \in {"as_double", "as_integer", "as_number"} THEN "Number"
    ELSE IF op = "as_bool" THEN "Boolean"
    ELSE IF op = "as_array" THEN "Array"
    ELSE IF op = "as_object" THEN "Object"
    ELSE "String"

TypeMismatch(op) ==
    IF op \in {"as_double", "as_integer", "as_number"} THEN "not a number"
    ELSE IF op = "as_bool" THEN "not a boolean"
    ELSE IF op = "as_array" THEN "not an array"
    ELSE IF op = "as_object" THEN "not an object"
    ELSE "not a string"

\* C14: a conversion succeeds exactly when the value is of the kind it is
\* for, and throws the type mismatch of that kind otherwise; no call changes
\* the value.
C14_Conversions ==
    /\ [](dlast.op \in Conversions =>
            IF doc.type = Target(dlast.op) THEN dlast.err = "none"
            ELSE dlast.err = TypeMismatch(dlast.op))
    /\ [][doc' = doc]_vars

\* C14 witness: as_integer() has failed on a string.
C14_Witness ==
    /\ dlast.op = "as_integer"
    /\ doc.type = "String"
    /\ dlast.err = "not a number"

\* the fields of an object, in storage order, and its keys
FieldsOf(v) == v.m_object.m_elements
FieldSet(v) == {FieldsOf(v)[i] : i \in 1..Len(FieldsOf(v))}
Ascending(v) ==
    \A i \in 1..(Len(FieldsOf(v)) - 1) :
        StrLess(FieldsOf(v)[i].first, FieldsOf(v)[i + 1].first)

\* C15: two objects are equal exactly when they have as many fields and the
\* fields at each position have the same key and equal values, whatever the
\* two storage modes; so a Sorted and an Ordered object with the same fields
\* (of distinct keys) are equal exactly when the Ordered one stores them in
\* ascending key order.
C15_ObjectEquality ==
    dlast.op = "==" /\ doc.type = "Object" /\ dlast.other[1].type = "Object" =>
        LET other == dlast.other[1]
            equal == dlast.ret.m_value
        IN /\ equal <=>
                /\ Len(FieldsOf(doc)) = Len(FieldsOf(other))
                /\ \A i \in 1..Len(FieldsOf(doc)) :
                      /\ FieldsOf(doc)[i].first = FieldsOf(other)[i].first
                      /\ value_eq(FieldsOf(doc)[i].second, FieldsOf(other)[i].second)
           /\ /\ ~doc.m_object.m_keep_order
              /\ other.m_object.m_keep_order
              /\ DistinctKeys(FieldsOf(other))
              /\ Len(FieldsOf(doc)) = Len(FieldsOf(other))
              /\ FieldSet(doc) = FieldSet(other)
              => (equal <=> Ascending(other))

\* C15 witness: a Sorted object has compared unequal to an Ordered object
\* that holds the same two fields, b first.
C15_Witness ==
    /\ dlast.op = "=="
    /\ doc.type = "Object"
    /\ ~doc.m_object.m_keep_order
    /\ dlast.other[1].type = "Object"
    /\ dlast.other[1].m_object.m_keep_order
    /\ Len(FieldsOf(doc)) = MaxKids
    /\ FieldSet(doc) = FieldSet(dlast.other[1])
    /\ DistinctKeys(FieldsOf(doc))
    /\ ~Ascending(dlast.other[1])
    /\ ~dlast.ret.m_value

\* the renderings of the children of an array or object, in storage order
Renderings(v) ==
    IF v.type = "Array" THEN [i \in 1..Len(v.m_array) |-> format(v.m_array[i])]
    ELSE [i \in 1..Len(FieldsOf(v)) |->
            <<34>> \o FieldsOf(v)[i].first \o <<34, 58>> \o format(FieldsOf(v)[i].second)]

\* the texts of a sequence, a comma between each two
RECURSIVE Join(_)
Join(texts) ==
    IF texts = <<>> THEN <<>>
    ELSE IF Len(texts) = 1 THEN texts[1]
    ELSE texts[1] \o <<44>> \o Join(Tail(texts))

RECURSIVE TotalLen(_)
TotalLen(texts) == IF texts = <<>> THEN 0 ELSE Len(texts[1]) + TotalLen(Tail(texts))

\* C16: an array or object of n children is written as the opening bracket,
\* the renderings of the children in storage order (a field as its quoted
\* key, a colon and the value) with a comma between each two, so
\* max(0, n - 1) of them and none leading or trailing, and the closing
\* bracket; empty ones as [] and {}; serializing leaves the tree as it is.
C16_Serialize ==
    /\ [](dlast.op = "serialize" /\ doc.type \in {"Array", "Object"} =>
            LET r == Renderings(doc)
                n == Len(r)
                open == IF doc.type = "Array" THEN 91 ELSE 123
                close == IF doc.type = "Array" THEN 93 ELSE 125
            IN /\ dlast.out = <<open>> \o Join(r) \o <<close>>
               /\ Len(dlast.out) = 2 + TotalLen(r) + (IF n = 0 THEN 0 ELSE n - 1)
               /\ n = 0 => dlast.out = <<open, close>>)
    /\ [][doc' = doc]_vars

\* C16 witness: a Sorted object of the most fields, an array among their
\* values, has been serialized.
C16_Witness ==
    /\ dlast.op = "serialize"
    /\ doc.type = "Object"
    /\ Len(FieldsOf(doc)) = MaxKids
    /\ \E i \in 1..Len(FieldsOf(doc)) : FieldsOf(doc)[i].second.type = "Array"

\* C17 as stated: get(key) on an object and get(index) on an array do not
\* fail: they return the value of the field or element, and a null value
\* when there is none.
C17_GetReturns ==
    /\ dlast.op = "get(key)" /\ doc.type = "Object" =>
          /\ dlast.err = "none"
          /\ LET i == find(doc.m_object, dlast.key)
             IN dlast.ret = IF i = End(FieldsOf(doc)) THEN NullV ELSE FieldsOf(doc)[i].second
    /\ dlast.op = "get(index)" /\ doc.type = "Array" =>
          /\ dlast.err = "none"
          /\ dlast.ret = IF dlast.index < Len(doc.m_array) THEN doc.m_array[dlast.index + 1]
                         ELSE NullV

(***************************************************************************)
(* SpecFactory: the process-wide flag and the factory functions of objects.*)
(***************************************************************************)
\* value::object that makes every object Ordered
value_object_ordered(fields, keep_order) ==
    {ObjectV(o) : o \in object_ctor(fields, TRUE)}

\* value::object(fields, keep_order), and value::object(keep_order) with no
\* fields: a _Object(fields, keep_order), whose m_object is
\* object(fields, keep_order)
value_object(fields, keep_order) ==
    {ObjectV(o) : o \in object_ctor(fields, keep_order)}

\* bool keep_order = false
DefaultKeepOrder == FALSE

ObjectMade(call, fields, explicit, keep_order, v) ==
    [call |-> call, fields |-> fields, explicit |-> explicit, keep_order |-> keep_order,
     flag |-> g_keep_json_object_unsorted, value |-> v]

IdleOfFactory ==
    IdleObject /\ IdlePair /\ IdleArray /\ IdleValue /\ IdleNumber /\ IdleDocument /\ IdleParser /\ IdleSize /\ IdleClient /\ IdleContext /\ IdlePipeline

InitFactory == IdleFactory /\ IdleOfFactory

\* json::keep_object_element_order(keep_order)
KeepObjectElementOrder(keep_order) ==
    /\ g_keep_json_object_unsorted' = keep_order
    /\ UNCHANGED <<made, notFactory>>

\* json::value::object() and json::value::object(keep_order)
MakeObject(explicit, keep_order) ==
    LET arg == IF explicit THEN keep_order ELSE DefaultKeepOrder
    IN /\ \E v \in value_object(<<>>, arg) :
            made' = ObjectMade("object", <<>>, explicit, arg, v)
       /\ UNCHANGED <<g_keep_json_object_unsorted, notFactory>>

\* json::value::object(fields) and json::value::object(fields, keep_order)
MakeObjectOf(fields, explicit, keep_order) ==
    LET arg == IF explicit THEN keep_order ELSE DefaultKeepOrder
    IN /\ \E v \in value_object(fields, arg) :
            made' = ObjectMade("object(fields)", fields, explicit, arg, v)
       /\ UNCHANGED <<g_keep_json_object_unsorted, notFactory>>

NextFactory ==
    \/ \E keep_order \in BOOLEAN : KeepObjectElementOrder(keep_order)
    \/ \E explicit, keep_order \in BOOLEAN : MakeObject(explicit, keep_order)
    \/ \E fields \in Fields, explicit, keep_order \in BOOLEAN :
          MakeObjectOf(fields, explicit, keep_order)

SpecFactory == InitFactory /\ [][NextFactory]_vars

\* C18 as stated: an object made without an explicit mode is Ordered exactly
\* when the flag was set at the time.
C18_Original ==
    made.call # "none" /\ ~made.explicit =>
        (made.value.m_object.m_keep_order <=> made.flag)

\* C18: an object made by the factory without an explicit mode is Sorted,
\* whatever the flag was at the time, and one made with an explicit mode has
\* that mode.
C18_FactoryDefault ==
    made.call # "none" =>
        /\ ~made.explicit => ~made.value.m_object.m_keep_order
        /\ made.explicit => made.value.m_object.m_keep_order = made.keep_order
        /\ ~made.value.m_object.m_keep_order =>
              \A i \in 1..(Len(FieldsOf(made.value)) - 1) :
                  ~StrLess(FieldsOf(made.value)[i + 1].first, FieldsOf(made.value)[i].first)

\* C18 witness: with the flag set, value::object(fields) was called without a
\* mode on fields in descending key order, and made a Sorted object.
C18_Witness ==
    /\ made.call = "object(fields)"
    /\ ~made.explicit
    /\ made.flag
    /\ Len(made.fields) = MaxKids
    /\ StrLess(made.fields[2].first, made.fields[1].first)
    /\ ~made.value.m_object.m_keep_order
    /\ StrLess(FieldsOf(made.value)[1].first, FieldsOf(made.value)[2].first)

(***************************************************************************)
(* value::parse: the reader of JSON text. The text is a sequence of bytes: *)
(* line feed 10, space 32, " 34, * 42, , 44, - 45, . 46, / 47, 0..9 48..57,*)
(* : 58, [ 91, \ 92, ] 93, { 123, } 125.                                   *)
(***************************************************************************)
\* enum json_error in which nesting has the value of mismatched_brances
json_error_repeated ==
    [left_over_character_in_stream |-> 1,
     malformed_array_literal |-> 2,
     malformed_comment |-> 3,
     malformed_literal |-> 4,
     malformed_object_literal |-> 5,
     malformed_numeric_literal |-> 6,
     malformed_string_literal |-> 7,
     malformed_token |-> 8,
     mismatched_brances |-> 9,
     nesting |-> 9,
     unexpected_token |-> 10]

\* enum json_error
json_error ==
    [left_over_character_in_stream |-> 1,
     malformed_array_literal |-> 2,
     malformed_comment |-> 3,
     malformed_literal |-> 4,
     malformed_object_literal |-> 5,
     malformed_numeric_literal |-> 6,
     malformed_string_literal |-> 7,
     malformed_token |-> 8,
     mismatched_brances |-> 9,
     nesting |-> 10,
     unexpected_token |-> 11]

\* json_error_category_impl::message
message(ev) ==
    IF ev = json_error.left_over_character_in_stream
    THEN "Left-over characters in stream after parsing a JSON value"
    ELSE IF ev = json_error.malformed_array_literal THEN "Malformed array literal"
    ELSE IF ev = json_error.malformed_comment THEN "Malformed comment"
    ELSE IF ev = json_error.malformed_literal THEN "Malformed literal"
    ELSE IF ev = json_error.malformed_object_literal THEN "Malformed object literal"
    ELSE IF ev = json_error.malformed_numeric_literal THEN "Malformed numeric literal"
    ELSE IF ev = json_error.malformed_string_literal THEN "Malformed string literal"
    ELSE IF ev = json_error.malformed_token THEN "Malformed token"
    ELSE IF ev = json_error.mismatched_brances THEN "Mismatched braces"
    ELSE IF ev = json_error.nesting THEN "Nesting too deep"
    ELSE IF ev = json_error.unexpected_token THEN "Unexpected token"
    ELSE "Unknown json error"

\* the bound of the nesting of arrays and objects in a text
MaxNesting == 2

\* a token: its kind, the error met while reading it (0 for none), the bytes
\* and the escape flag of a string, the number, and where the next token starts
Token(kind, err, str, esc, num, next) ==
    [kind |-> kind, err |-> err, str |-> str, esc |-> esc, num |-> num, next |-> next]
Plain(kind, next) == Token(kind, 0, <<>>, FALSE, ZeroNumber, next)
Bad(err) == Token("error", err, <<>>, FALSE, ZeroNumber, 0)

\* the position after a single-line comment: after its line feed, or the end
RECURSIVE LineEnd(_, _)
LineEnd(text, i) ==
    IF i > Len(text) THEN i
    ELSE IF text[i] = 10 THEN i + 1
    ELSE LineEnd(text, i + 1)

\* the position after a block comment, 0 if the text ends inside it
RECURSIVE BlockEnd(_, _)
BlockEnd(text, i) ==
    IF i + 1 > Len(text) THEN 0
    ELSE IF text[i] = 42 /\ text[i + 1] = 47 THEN i + 2
    ELSE BlockEnd(text, i + 1)

\* skips the white space and the comments between tokens: the position of
\* the next token, or the error of a comment that is not one
RECURSIVE SkipSpace(_, _)
SkipSpace(text, i) ==
    IF i > Len(text) THEN [err |-> 0, next |-> i]
    ELSE IF text[i] \in {9, 10, 13, 32} THEN SkipSpace(text, i + 1)
    ELSE IF text[i] # 47 THEN [err |-> 0, next |-> i]
    ELSE IF i + 1 <= Len(text) /\ text[i + 1] = 47
    THEN SkipSpace(text, LineEnd(text, i + 2))
    ELSE IF i + 1 <= Len(text) /\ text[i + 1] = 42 /\ BlockEnd(text, i + 2) # 0
    THEN SkipSpace(text, BlockEnd(text, i + 2))
    ELSE [err |-> json_error.malformed_comment, next |-> 0]

\* the character an escape sequence stands for, 0 if it is not one
\* (\uXXXX is not among the texts read here)
Unescaped(c) ==
    IF c \in {34, 47, 92} THEN c
    ELSE IF c = 98 THEN 8
    ELSE IF c = 102 THEN 12
    ELSE IF c = 110 THEN 10
    ELSE IF c = 114 THEN 13
    ELSE IF c = 116 THEN 9
    ELSE 0

\* a string from the character after its opening quote: the characters up
\* to the closing quote, escape sequences replaced, and whether there was one
RECURSIVE LexString(_, _, _, _)
LexString(text, i, str, esc) ==
    IF i > Len(text) THEN Bad(json_error.malformed_string_literal)
    ELSE IF text[i] = 34 THEN Token("string", 0, str, esc, ZeroNumber, i + 1)
    ELSE IF text[i] = 92
    THEN (IF i + 1 > Len(text) \/ Unescaped(text[i + 1]) = 0
          THEN Bad(json_error.malformed_string_literal)
          ELSE LexString(text, i + 2, Append(str, Unescaped(text[i + 1])), TRUE))
    ELSE IF text[i] < 32 THEN Bad(json_error.malformed_string_literal)
    ELSE LexString(text, i + 1, Append(str, text[i]), esc)

\* the position after the digits that start at i
RECURSIVE DigitsEnd(_, _)
DigitsEnd(text, i) ==
    IF i <= Len(text) /\ text[i] \in 48..57 THEN DigitsEnd(text, i + 1) ELSE i

\* the number the digits from i up to j - 1 write
RECURSIVE DigitsValue(_, _, _)
DigitsValue(text, i, j) ==
    IF j <= i THEN 0 ELSE 10 * DigitsValue(text, i, j - 1) + (text[j - 1] - 48)

\* a number: with no fraction an integer, negative as int64_t and otherwise
\* as uint64_t, or a double if it fits neither; with a fraction a double
\* (read to the half here)
LexNumber(text, i) ==
    LET neg == text[i] = 45
        s == IF neg THEN i + 1 ELSE i
        e == DigitsEnd(text, s)
        v == DigitsValue(text, s, e)
        f == DigitsEnd(text, e + 1)
    IN  IF e = s \/ (e > s + 1 /\ text[s] = 48)
        THEN Bad(json_error.malformed_numeric_literal)
        ELSE IF e <= Len(text) /\ text[e] = 46
        THEN (IF f = e + 1 THEN Bad(json_error.malformed_numeric_literal)
              ELSE Token("number", 0, <<>>, FALSE,
                         number_double(Double(FALSE, neg,
                                              2 * v + (IF text[e + 1] >= 53 THEN 1 ELSE 0))),
                         f))
        ELSE IF neg /\ (0 - v) \in int64_t
        THEN Token("number", 0, <<>>, FALSE, number_int64(0 - v), e)
        ELSE IF ~neg /\ v \in uint64_t
        THEN Token("number", 0, <<>>, FALSE, number_uint64(v), e)
        ELSE Token("number", 0, <<>>, FALSE, number_double(Double(FALSE, neg, 2 * v)), e)

\* true, false or null, whichever starts with the character at i
LexLiteral(text, i) ==
    LET word == IF text[i] = 116 THEN <<116, 114, 117, 101>>
                ELSE IF text[i] = 102 THEN <<102, 97, 108, 115, 101>>
                ELSE <<110, 117, 108, 108>>
        kind == IF text[i] = 116 THEN "true" ELSE IF text[i] = 102 THEN "false" ELSE "null"
    IN  IF i + Len(word) - 1 <= Len(text) /\ SubSeq(text, i, i + Len(word) - 1) = word
        THEN Plain(kind, i + Len(word))
        ELSE Bad(json_error.malformed_literal)

\* the token that starts at or after position i
GetNextToken(text, i) ==
    LET sp == SkipSpace(text, i)
        at == sp.next
    IN  IF sp.err # 0 THEN Bad(sp.err)
        ELSE IF at > Len(text) THEN Plain("eof", at)
        ELSE IF text[at] = 123 THEN Plain("{", at + 1)
        ELSE IF text[at] = 125 THEN Plain("}", at + 1)
        ELSE IF text[at] = 91 THEN Plain("[", at + 1)
        ELSE IF text[at] = 93 THEN Plain("]", at + 1)
        ELSE IF text[at] = 44 THEN Plain(",", at + 1)
        ELSE IF text[at] = 58 THEN Plain(":", at + 1)
        ELSE IF text[at] = 34 THEN LexString(text, at + 1, <<>>, FALSE)
        ELSE IF text[at] = 45 \/ text[at] \in 48..57 THEN LexNumber(text, at)
        ELSE IF text[at] \in {102, 110, 116} THEN LexLiteral(text, at)
        ELSE Bad(json_error.malformed_token)

\* what reading a value gives: the error (0 for none), the value, and where
\* the text goes on
Parsed(err, v, next) == [err |-> err, value |-> v, next |-> next]
Failed(err) == Parsed(err, NullV, 0)

\* ParseValue reads the value that starts at i, inside depth arrays and
\* objects; ParseArray and ParseObject read the elements and the fields after
\* the ones in acc. Each gives the set of its possible results: an object
\* read is an object(fields, keep_order) of the fields the text has, with
\* keep_order the flag g_keep_json_object_unsorted, so it is sorted unless
\* the flag is set.
RECURSIVE ParseValue(_, _, _, _)
RECURSIVE ParseArray(_, _, _, _, _)
RECURSIVE ParseObject(_, _, _, _, _)

ParseArray(text, i, depth, acc, keep_order) ==
    UNION {IF e.err # 0 THEN {Failed(e.err)}
           ELSE UNION {IF t.err # 0 THEN {Failed(t.err)}
                       ELSE IF t.kind = ","
                       THEN ParseArray(text, t.next, depth, Append(acc, e.value), keep_order)
                       ELSE IF t.kind = "]"
                       THEN {Parsed(0, ArrayV(Append(acc, e.value)), t.next)}
                       ELSE IF t.kind = "}" THEN {Failed(json_error.mismatched_brances)}
                       ELSE {Failed(json_error.malformed_array_literal)} :
                            t \in {GetNextToken(text, e.next)}} :
                e \in ParseValue(text, i, depth, keep_order)}

\* the field whose key is the string token k: the colon, then the value, then
\* a comma and more fields, or the closing brace
ParseField(text, k, depth, acc, keep_order) ==
    UNION {IF c.err # 0 THEN {Failed(c.err)}
           ELSE IF c.kind # ":" THEN {Failed(json_error.malformed_object_literal)}
           ELSE UNION {IF e.err # 0 THEN {Failed(e.err)}
                       ELSE UNION {IF t.err # 0 THEN {Failed(t.err)}
                                   ELSE IF t.kind = ","
                                   THEN ParseObject(text, t.next, depth,
                                                    Append(acc, Pair(k.str, e.value)),
                                                    keep_order)
                                   ELSE IF t.kind = "}"
                                   THEN {Parsed(0, v, t.next) :
                                            v \in value_object(Append(acc, Pair(k.str, e.value)),
                                                               keep_order)}
                                   ELSE IF t.kind = "]"
                                   THEN {Failed(json_error.mismatched_brances)}
                                   ELSE {Failed(json_error.malformed_object_literal)} :
                                        t \in {GetNextToken(text, e.next)}} :
                            e \in ParseValue(text, c.next, depth, keep_order)} :
                c \in {GetNextToken(text, k.next)}}

ParseObject(text, i, depth, acc, keep_order) ==
    UNION {IF k.err # 0 THEN {Failed(k.err)}
           ELSE IF k.kind = "]" THEN {Failed(json_error.mismatched_brances)}
           ELSE IF k.kind # "string" THEN {Failed(json_error.malformed_object_literal)}
           ELSE ParseField(text, k, depth, acc, keep_order) :
                k \in {GetNextToken(text, i)}}

\* the array or object whose opening bracket is the token tkn
ParseComposite(text, tkn, depth, keep_order) ==
    UNION {IF tkn.kind = "[" /\ t2.err = 0 /\ t2.kind = "]"
           THEN {Parsed(0, ArrayV(<<>>), t2.next)}
           ELSE IF tkn.kind = "[" THEN ParseArray(text, tkn.next, depth + 1, <<>>, keep_order)
           ELSE IF t2.err = 0 /\ t2.kind = "}"
           THEN {Parsed(0, v, t2.next) : v \in value_object(<<>>, keep_order)}
           ELSE ParseObject(text, tkn.next, depth + 1, <<>>, keep_order) :
                t2 \in {GetNextToken(text, tkn.next)}}

ParseValue(text, i, depth, keep_order) ==
    UNION {IF tkn.err # 0 THEN {Failed(tkn.err)}
           ELSE IF tkn.kind \in {"[", "{"} /\ depth + 1 > MaxNesting
           THEN {Failed(json_error.nesting)}
           ELSE IF tkn.kind \in {"[", "{"} THEN ParseComposite(text, tkn, depth, keep_order)
           ELSE IF tkn.kind = "string" THEN {Parsed(0, StringV(tkn.str, tkn.esc), tkn.next)}
           ELSE IF tkn.kind = "number" THEN {Parsed(0, NumberV(tkn.num), tkn.next)}
           ELSE IF tkn.kind = "true" THEN {Parsed(0, BoolV(TRUE), tkn.next)}
           ELSE IF tkn.kind = "false" THEN {Parsed(0, BoolV(FALSE), tkn.next)}
           ELSE IF tkn.kind = "null" THEN {Parsed(0, NullV, tkn.next)}
           ELSE IF tkn.kind \in {"]", "}"} THEN {Failed(json_error.mismatched_brances)}
           ELSE {Failed(json_error.unexpected_token)} :
                tkn \in {GetNextToken(text, i)}}

\* the parser run over the whole text: the tree read and the error met; a
\* tree followed by more than white space is an error that still has the tree
ParseText(text, keep_order) ==
    UNION {IF r.err # 0 THEN {Failed(r.err)}
           ELSE {Parsed(IF t.err # 0 THEN t.err
                        ELSE IF t.kind # "eof"
                        THEN json_error.left_over_character_in_stream
                        ELSE 0, r.value, t.next) : t \in {GetNextToken(text, r.next)}} :
                r \in ParseValue(text, 1, 0, keep_order)}

\* what a call of value::parse gives: whether it threw, the error code, the value
Outcome(thrown, errorCode, v) == [thrown |-> thrown, errorCode |-> errorCode, value |-> v]

\* value::parse(value, errorCode): the error code is set to the error met,
\* 0 for none, and after an error the value returned is null
parse_ec(text, keep_order) ==
    {Outcome(FALSE, r.err, IF r.err # 0 THEN NullV ELSE r.value) :
        r \in ParseText(text, keep_order)}

\* value::parse(value): throws a json_exception that names the error met,
\* and returns nothing then
parse(text, keep_order) ==
    {Outcome(r.err # 0, r.err, IF r.err # 0 THEN NullV ELSE r.value) :
        r \in ParseText(text, keep_order)}

(***************************************************************************)
(* SpecParser: a text, or a value that is serialized into one, and the     *)
(* calls of value::parse made on it under either setting of the flag.      *)
(***************************************************************************)
\* the pieces the texts are put together from: [ ] { } , : " a 1 - / t and
\* the space
Fragments ==
    {<<91>>, <<93>>, <<123>>, <<125>>, <<44>>, <<58>>, <<34>>, <<97>>, <<49>>, <<45>>,
     <<47>>, <<116>>, <<32>>}

\* the most pieces in a text
MaxFragments == 3

RECURSIVE Concat(_)
Concat(pieces) == IF pieces = <<>> THEN <<>> ELSE Head(pieces) \o Concat(Tail(pieces))

FragmentTexts == {Concat(f) : f \in UNION {[1..n -> Fragments] : n \in 0..MaxFragments}}

\* texts with comments, white space and escape sequences:
\* /* */ 1, a comment line and [1], "a\nb", 1 2, 1.5, and "a":1 in braces
\* after a space
Samples ==
    {<<47, 42, 32, 42, 47, 32, 49>>,
     <<47, 47, 97, 10, 91, 49, 93>>,
     <<34, 97, 92, 110, 98, 34>>,
     <<49, 32, 50>>,
     <<49, 46, 53>>,
     <<32, 123, 34, 97, 34, 58, 49, 125>>}

\* n arrays, one inside the other
RECURSIVE Nest(_)
Nest(n) == IF n = 0 THEN NullV ELSE ArrayV(<<Nest(n - 1)>>)

\* the values the factory functions build that are serialized and read back:
\* those of SpecDocument, strings made by value::string(value, has_escape_chars)
\* with either flag, the integers at the ends of their ranges, and arrays
\* nested as deep as the parser goes and one deeper
RoundTripDocs ==
    Docs \cup
    {StringV(<<34>>, FALSE), StringV(<<34>>, TRUE), StringV(<<97, 10, 98>>, TRUE),
     StringV(<<97, 47>>, FALSE),
     NumberV(number_int64(0 - 2^(Bits64 - 1))), NumberV(number_uint64(2^Bits64 - 1)),
     NumberV(number_int32(0)),
     Nest(MaxNesting), Nest(MaxNesting + 1)}

Texts == FragmentTexts \cup Samples \cup {serialize(v) : v \in Docs}

IdleOfParser ==
    IdleObject /\ IdlePair /\ IdleArray /\ IdleValue /\ IdleNumber /\ IdleDocument /\ IdleSize /\ IdleClient /\ IdleContext /\ IdlePipeline

InitParser ==
    /\ plast \in {[NoParse EXCEPT !.text = t] : t \in Texts}
                    \cup {[NoParse EXCEPT !.from = <<v>>] : v \in RoundTripDocs}
    /\ IdleFactory
    /\ IdleOfParser

ParseCall(op, text, r) ==
    [op |-> op, text |-> text, from |-> plast.from, flag |-> g_keep_json_object_unsorted,
     thrown |-> r.thrown, errorCode |-> r.errorCode, value |-> r.value]

\* v = json::value::parse(text)
Parse ==
    /\ plast.from = <<>>
    /\ \E r \in parse(plast.text, g_keep_json_object_unsorted) :
          plast' = ParseCall("parse", plast.text, r)
    /\ UNCHANGED <<g_keep_json_object_unsorted, notParser>>

\* v = json::value::parse(text, errorCode)
ParseEc ==
    /\ plast.from = <<>>
    /\ \E r \in parse_ec(plast.text, g_keep_json_object_unsorted) :
          plast' = ParseCall("parse(ec)", plast.text, r)
    /\ UNCHANGED <<g_keep_json_object_unsorted, notParser>>

\* w = json::value::parse(v.serialize())
RoundTrip ==
    /\ plast.from # <<>>
    /\ \E r \in parse(serialize(plast.from[1]), g_keep_json_object_unsorted) :
          plast' = ParseCall("roundtrip", serialize(plast.from[1]), r)
    /\ UNCHANGED <<g_keep_json_object_unsorted, notParser>>

NextParser ==
    \/ \E keep_order \in BOOLEAN : KeepObjectElementOrder(keep_order)
    \/ Parse
    \/ ParseEc
    \/ RoundTrip

SpecParser == InitParser /\ [][NextParser]_vars

\* the arrays and objects around the innermost value of a tree
RECURSIVE Depth(_)
Depth(v) ==
    LET kids == IF v.type = "Array" THEN {v.m_array[i] : i \in 1..Len(v.m_array)}
                ELSE IF v.type = "Object"
                THEN {FieldsOf(v)[i].second : i \in 1..Len(FieldsOf(v))}
                ELSE {}
        deep == {Depth(k) : k \in kids}
    IN  IF v.type \notin {"Array", "Object"} THEN 0
        ELSE IF deep = {} THEN 1
        ELSE 1 + CHOOSE d \in deep : \A x \in deep : x <= d

\* the values inside a tree, the tree included
RECURSIVE Nodes(_)
Nodes(v) ==
    {v} \cup
    (IF v.type = "Array" THEN UNION {Nodes(v.m_array[i]) : i \in 1..Len(v.m_array)}
     ELSE IF v.type = "Object"
     THEN UNION {Nodes(FieldsOf(v)[i].second) : i \in 1..Len(FieldsOf(v))}
     ELSE {})

\* a string has a character that serialization must escape
NeedsEscape(str) == \E i \in 1..Len(str) : str[i] \in {34, 92} \/ str[i] < 32

\* every string of the tree that has a character to escape says so
Truthful(v) ==
    \A x \in Nodes(v) : x.type = "String" /\ NeedsEscape(x.m_string) => x.m_has_escape_char

\* every number of the tree is an integer
Integral(v) == \A x \in Nodes(v) : x.type = "Number" => is_integral(x.m_number)

\* every object of the tree has the mode keep_order
SameMode(v, keep_order) ==
    \A x \in Nodes(v) : x.type = "Object" => x.m_object.m_keep_order = keep_order

\* no object of the tree has a key twice
UniqueKeys(v) == \A x \in Nodes(v) : x.type = "Object" => DistinctKeys(FieldsOf(x))

\* C19 as stated: a value built by the factory functions, with integers for
\* numbers, serialized and parsed under the flag that is the mode of its
\* objects, is read without error and the value read is equal to it.
C19_Original ==
    /\ plast.op = "roundtrip"
    /\ Integral(plast.from[1])
    /\ SameMode(plast.from[1], plast.flag)
    => ~plast.thrown /\ value_eq(plast.value, plast.from[1])

\* C19: a value built by the factory functions, with integers for numbers,
\* whose strings say so when they have a character to escape, whose objects
\* have no key twice, and whose arrays and objects are nested no deeper than
\* the parser goes, serialized and parsed under the flag that is the mode of
\* its objects, is read without error and the value read is equal to it.
C19_RoundTrip ==
    /\ plast.op = "roundtrip"
    /\ Integral(plast.from[1])
    /\ SameMode(plast.from[1], plast.flag)
    /\ Truthful(plast.from[1])
    /\ UniqueKeys(plast.from[1])
    /\ Depth(plast.from[1]) <= MaxNesting
    => ~plast.thrown /\ value_eq(plast.value, plast.from[1])

\* C19 witness: an Ordered object with its keys in descending order and an
\* array in it was serialized and parsed with the flag set, and the value
\* read is equal to it.
C19_Witness ==
    /\ plast.op = "roundtrip"
    /\ plast.flag
    /\ plast.from[1].type = "Object"
    /\ SameMode(plast.from[1], TRUE)
    /\ Len(FieldsOf(plast.from[1])) = 2
    /\ StrLess(FieldsOf(plast.from[1])[2].first, FieldsOf(plast.from[1])[1].first)
    /\ FieldsOf(plast.from[1])[1].second.type = "Array"
    /\ ~plast.thrown
    /\ value_eq(plast.value, plast.from[1])

\* the error codes of the enumeration
Codes == {json_error[kind] : kind \in DOMAIN json_error}

\* C20: a call of value::parse either gives a value and no error, or one of
\* the eleven errors and no value: the call that throws throws exactly when
\* there is an error; the call with an error code gives a code above 0 and
\* the null value on an error and the code 0 otherwise; the eleven errors have
\* the codes 1 to 11, each its own, and each its own message.
C20_ParseOutcome ==
    /\ Codes = 1..11
    /\ \A a, b \in DOMAIN json_error :
          a # b => json_error[a] # json_error[b] /\ message(json_error[a]) # message(json_error[b])
    /\ \A ev \in Codes : message(ev) # message(0)
    /\ plast.op \in {"parse", "parse(ec)"} =>
          /\ plast.errorCode \in {0} \cup Codes
          /\ plast.errorCode = 0 => ~plast.thrown
          /\ plast.errorCode > 0 => plast.value = NullV
          /\ plast.op = "parse" => (plast.thrown <=> plast.errorCode > 0)
          /\ plast.op = "parse(ec)" => ~plast.thrown

\* C20 witness: the text 1, followed by a space and 1, was parsed with an
\* error code; the code is that of left-over characters and the value is null.
C20_Witness ==
    /\ plast.op = "parse(ec)"
    /\ plast.text = <<49, 32, 49>>
    /\ plast.errorCode = json_error.left_over_character_in_stream
    /\ plast.value = NullV

(***************************************************************************)
(* The size estimate of the serializer: value::size and serialize_size.    *)
(***************************************************************************)
\* value::size: m_value->size(), 0 in _Value, the number of elements or of
\* fields in _Array and _Object
value_size(v) ==
    IF v.type = "Array" THEN Len(v.m_array)
    ELSE IF v.type = "Object" THEN Len(FieldsOf(v))
    ELSE 0

RECURSIVE SumOf(_)
SumOf(terms) == IF terms = <<>> THEN 0 ELSE Head(terms) + SumOf(Tail(terms))

RECURSIVE serialize_size(_)

\* _Array::serialize_size that takes the estimate of an element with no
\* children from the element
Array_serialize_size_leaf(v) ==
    2 + SumOf([i \in 1..Len(v.m_array) |->
                  IF value_size(v.m_array[i]) * 20 = 0
                  THEN serialize_size(v.m_array[i])
                  ELSE value_size(v.m_array[i]) * 20])

\* _Array::serialize_size
Array_serialize_size(v) ==
    2 + SumOf([i \in 1..Len(v.m_array) |->
                  IF value_size(v.m_array[i]) * 20 = 0 THEN 5
                  ELSE value_size(v.m_array[i]) * 20])

\* _Object::serialize_size
Object_serialize_size(v) ==
    2 + SumOf([i \in 1..Len(FieldsOf(v)) |->
                  Len(FieldsOf(v)[i].first) + 2
                  + (IF value_size(FieldsOf(v)[i].second) * 20 = 0
                     THEN serialize_size(FieldsOf(v)[i].second)
                     ELSE value_size(FieldsOf(v)[i].second) * 20)])

\* m_value->serialize_size() in which _UTF8String leaves out the two quotes
serialize_size_unquoted(v) ==
    IF v.type = "Null" THEN 4
    ELSE IF v.type = "Boolean" THEN 5
    ELSE IF v.type = "Number" THEN 10
    ELSE IF v.type = "String" THEN Len(v.m_string)
    ELSE IF v.type = "Array" THEN Array_serialize_size(v)
    ELSE Object_serialize_size(v)

\* m_value->serialize_size()
serialize_size(v) ==
    IF v.type = "Null" THEN 4
    ELSE IF v.type = "Boolean" THEN 5
    ELSE IF v.type = "Number" THEN 10
    ELSE IF v.type = "String" THEN Len(v.m_string) + 2
    ELSE IF v.type = "Array" THEN Array_serialize_size(v)
    ELSE Object_serialize_size(v)

(***************************************************************************)
(* SpecSize: a value, and the calls of size() and serialize_size() on it.  *)
(***************************************************************************)
\* the values measured: those serialized and read back, an array of a
\* string, arrays of null, and five booleans in an array in two more arrays
SizeDocs ==
    RoundTripDocs \cup
    {ArrayV(<<StringV(<<97, 97, 97, 97>>, FALSE)>>),
     ArrayV(<<NullV>>), ArrayV(<<NullV, NullV>>),
     ArrayV(<<NumberV(number_int32(1)), StringV(<<>>, FALSE)>>),
     ObjectV([m_elements |-> <<Pair(<<97>>, NullV)>>, m_keep_order |-> FALSE]),
     ObjectV([m_elements |-> <<Pair(<<97, 98>>, StringV(<<97>>, FALSE)),
                               Pair(<<98>>, NumberV(number_int32(1)))>>,
              m_keep_order |-> FALSE]),
     ArrayV(<<ArrayV(<<ArrayV(<<BoolV(TRUE), BoolV(TRUE), BoolV(TRUE), BoolV(TRUE),
                                BoolV(TRUE)>>)>>)>>)}

IdleOfSize ==
    IdleObject /\ IdlePair /\ IdleArray /\ IdleValue /\ IdleNumber /\ IdleFactory /\ IdleParser /\ IdleClient /\ IdleContext /\ IdlePipeline

InitSize ==
    /\ doc \in SizeDocs
    /\ dlast = NoDocCall
    /\ slast = NoSizeCall
    /\ IdleOfSize

\* doc.size()
Size ==
    /\ slast' = [op |-> "size", ret |-> value_size(doc)]
    /\ UNCHANGED notSize

\* doc.m_value->serialize_size()
SerializeSize ==
    /\ slast' = [op |-> "serialize_size", ret |-> serialize_size(doc)]
    /\ UNCHANGED notSize

NextSize ==
    \/ Size
    \/ SerializeSize

SpecSize == InitSize /\ [][NextSize]_vars

\* the leaf estimate of a value: 4 for null, 5 for a boolean, 10 for a
\* number, the length and 2 for a string, 2 for an array or object
LeafEstimate(v) ==
    IF v.type = "Null" THEN 4
    ELSE IF v.type = "Boolean" THEN 5
    ELSE IF v.type = "Number" THEN 10
    ELSE IF v.type = "String" THEN Len(v.m_string) + 2
    ELSE 2

\* the children of an array or object, in storage order, and its keys
Kinder(v) ==
    IF v.type = "Array" THEN v.m_array
    ELSE [i \in 1..Len(FieldsOf(v)) |-> FieldsOf(v)[i].second]
KeyBytes(v) ==
    IF v.type = "Array" THEN 0
    ELSE SumOf([i \in 1..Len(FieldsOf(v)) |-> Len(FieldsOf(v)[i].first) + 2])

C22_Original ==
    slast.op = "serialize_size" => slast.ret >= Len(serialize(doc))

\* a string whose serialization writes its characters as they are
Verbatim(v) == ~(v.m_has_escape_char /\ NeedsEscape(v.m_string))

\* C22: the estimate is at least the number of bytes written for null, for a
\* boolean, for an empty array or object, and for a string written without
\* escape sequences, for which it is the number of bytes written.
C22_LeafBound ==
    slast.op = "serialize_size" =>
        /\ doc.type \in {"Null", "Boolean"} => slast.ret >= Len(serialize(doc))
        /\ doc.type \in {"Array", "Object"} /\ value_size(doc) = 0 =>
              slast.ret = Len(serialize(doc))
        /\ doc.type = "String" /\ Verbatim(doc) => slast.ret = Len(serialize(doc))

\* C22 witness: the estimate of the string a, written without escape
\* sequences, was taken and is 3, the bytes written.
C22_Witness ==
    /\ slast.op = "serialize_size"
    /\ doc = StringV(<<97>>, FALSE)
    /\ slast.ret = 3
    /\ Len(serialize(doc)) = 3

(***************************************************************************)
(* _http_client_communicator (Release/src/http/client/http_client.cpp):   *)
(* the requests of one client, each passed to async_send_request by its    *)
(* caller, run by an open_and_send_request task, and finished by the       *)
(* transport through request_context::finish.                              *)
(*                                                                         *)
(* pc of a request: "idle" not passed yet, "push" in async_send_request    *)
(* before push_request has the lock, "queued" in m_requests_queue, "task"  *)
(* its task created, "wantlock" in open_if_required before the lock,       *)
(* "opening" in open() with the lock held, "failed" open_if_required       *)
(* returned an error, "send" it returned 0, "inflight" send_request was    *)
(* called, "finish" in request_context::finish before finish_request,      *)
(* "done" after it.                                                        *)
(***************************************************************************)
\* what open() may return: 0, or an error
OpenResults == {0, 2}

\* push_request that creates a task for every request
push_request_eager(request) ==
    [m_scheduled |-> m_scheduled + 1, m_requests_queue |-> m_requests_queue,
     task |-> <<request>>]

\* push_request that puts every request in the queue
push_request_queue_only(request) ==
    [m_scheduled |-> m_scheduled + 1,
     m_requests_queue |-> Append(m_requests_queue, request), task |-> <<>>]

\* the body of push_request under the lock: the new counter and queue, and
\* the request a task is created for, if any
push_request(request) ==
    IF m_scheduled + 1 = 1
    THEN [m_scheduled |-> m_scheduled + 1, m_requests_queue |-> m_requests_queue,
          task |-> <<request>>]
    ELSE [m_scheduled |-> m_scheduled + 1,
          m_requests_queue |-> Append(m_requests_queue, request), task |-> <<>>]

\* finish_request that takes the newest request of the queue
finish_request_lifo ==
    IF guarantee_order
    THEN (IF m_requests_queue # <<>>
          THEN [m_scheduled |-> m_scheduled - 1,
                m_requests_queue |-> SubSeq(m_requests_queue, 1, Len(m_requests_queue) - 1),
                task |-> <<m_requests_queue[Len(m_requests_queue)]>>]
          ELSE [m_scheduled |-> m_scheduled - 1, m_requests_queue |-> m_requests_queue,
                task |-> <<>>])
    ELSE [m_scheduled |-> m_scheduled, m_requests_queue |-> m_requests_queue, task |-> <<>>]

\* finish_request that counts down whatever the configuration is
finish_request_always ==
    IF m_requests_queue # <<>>
    THEN [m_scheduled |-> m_scheduled - 1, m_requests_queue |-> Tail(m_requests_queue),
          task |-> <<Head(m_requests_queue)>>]
    ELSE [m_scheduled |-> m_scheduled - 1, m_requests_queue |-> m_requests_queue,
          task |-> <<>>]

\* the body of finish_request: with guarantee_order, under the lock, the
\* counter goes down and a task is created for the front of the queue
finish_request ==
    IF guarantee_order
    THEN (IF m_requests_queue # <<>>
          THEN [m_scheduled |-> m_scheduled - 1, m_requests_queue |-> Tail(m_requests_queue),
                task |-> <<Head(m_requests_queue)>>]
          ELSE [m_scheduled |-> m_scheduled - 1, m_requests_queue |-> m_requests_queue,
                task |-> <<>>])
    ELSE [m_scheduled |-> m_scheduled, m_requests_queue |-> m_requests_queue, task |-> <<>>]

\* a first test of m_opened that never finds the client opened
read_m_opened_never == {FALSE}

\* the first test of m_opened in open_if_required, made without the lock
\* while another task may be writing it: the value read is the one stored or
\* the one before it
read_m_opened == {m_opened, FALSE}

\* a second test that calls open() whatever m_opened is
open_needed_always == TRUE

\* the second test of m_opened in open_if_required, with the lock held:
\* whether open() is called
open_needed == ~m_opened

\* the error open() returned to the task of a request
ErrorOf(request) ==
    LET calls == {i \in 1..Len(opens) : opens[i].by = request}
    IN IF calls = {} THEN 0 ELSE opens[CHOOSE i \in calls : TRUE].error

(***************************************************************************)
(* SpecClient: the requests of one client under every interleaving.        *)
(***************************************************************************)
IdleOfClient ==
    IdleObject /\ IdlePair /\ IdleArray /\ IdleValue /\ IdleNumber /\ IdleDocument /\ IdleFactory /\ IdleParser /\ IdleSize /\ IdleContext /\ IdlePipeline

InitClient ==
    /\ guarantee_order \in BOOLEAN
    /\ m_opened = FALSE
    /\ m_scheduled = 0
    /\ m_requests_queue = <<>>
    /\ m_open_lock = 0
    /\ pc = [r \in Requests |-> "idle"]
    /\ pushed = <<>>
    /\ started = <<>>
    /\ opens = <<>>
    /\ outcome = [r \in Requests |-> [sent |-> FALSE, error |-> 0]]
    /\ IdleOfClient

\* async_send_request(request) up to push_request, or to the task it creates
AsyncSendRequest(request) ==
    /\ pc[request] = "idle"
    /\ IF guarantee_order
       THEN pc' = [pc EXCEPT ![request] = "push"] /\ started' = started
       ELSE pc' = [pc EXCEPT ![request] = "task"] /\ started' = Append(started, request)
    /\ UNCHANGED <<guarantee_order, m_opened, m_scheduled, m_requests_queue, m_open_lock,
                   pushed, opens, outcome, notClient>>

\* push_request(request), once it has the lock
PushRequest(request) ==
    /\ pc[request] = "push"
    /\ m_open_lock = 0
    /\ \E p \in {push_request(request)} :
          /\ m_scheduled' = p.m_scheduled
          /\ m_requests_queue' = p.m_requests_queue
          /\ started' = started \o p.task
          /\ pc' = [pc EXCEPT ![request] = IF p.task # <<>> THEN "task" ELSE "queued"]
    /\ pushed' = Append(pushed, request)
    /\ UNCHANGED <<guarantee_order, m_opened, m_open_lock, opens, outcome, notClient>>

\* the task of a request starts open_and_send_request: open_if_required and
\* its first test of m_opened
OpenIfRequired(request) ==
    /\ pc[request] = "task"
    /\ \E seen \in read_m_opened :
          pc' = [pc EXCEPT ![request] = IF seen THEN "send" ELSE "wantlock"]
    /\ UNCHANGED <<guarantee_order, m_opened, m_scheduled, m_requests_queue, m_open_lock,
                   pushed, started, opens, outcome, notClient>>

\* open_if_required takes the lock and tests m_opened again: open() is
\* called with the lock held, or the lock is released at once
TakeOpenLock(request) ==
    /\ pc[request] = "wantlock"
    /\ m_open_lock = 0
    /\ IF open_needed
       THEN pc' = [pc EXCEPT ![request] = "opening"] /\ m_open_lock' = request
       ELSE pc' = [pc EXCEPT ![request] = "send"] /\ m_open_lock' = 0
    /\ UNCHANGED <<guarantee_order, m_opened, m_scheduled, m_requests_queue,
                   pushed, started, opens, outcome, notClient>>

\* open() returns error: m_opened is set if it is 0, the lock is released
OpenReturns(request, error) ==
    /\ pc[request] = "opening"
    /\ opens' = Append(opens, [by |-> request, error |-> error])
    /\ m_opened' = IF error = 0 THEN TRUE ELSE m_opened
    /\ m_open_lock' = 0
    /\ pc' = [pc EXCEPT ![request] = IF error = 0 THEN "send" ELSE "failed"]
    /\ UNCHANGED <<guarantee_order, m_scheduled, m_requests_queue,
                   pushed, started, outcome, notClient>>

\* request->report_error(error, "Open failed"), up to finish_request
ReportOpenFailed(request) ==
    /\ pc[request] = "failed"
    /\ outcome' = [outcome EXCEPT ![request].error = ErrorOf(request)]
    /\ pc' = [pc EXCEPT ![request] = "finish"]
    /\ UNCHANGED <<guarantee_order, m_opened, m_scheduled, m_requests_queue, m_open_lock,
                   pushed, started, opens, notClient>>

\* send_request(request)
SendRequest(request) ==
    /\ pc[request] = "send"
    /\ outcome' = [outcome EXCEPT ![request].sent = TRUE]
    /\ pc' = [pc EXCEPT ![request] = "inflight"]
    /\ UNCHANGED <<guarantee_order, m_opened, m_scheduled, m_requests_queue, m_open_lock,
                   pushed, started, opens, notClient>>

\* the transport completes the request: complete_request or
\* report_exception, up to finish_request
Complete(request) ==
    /\ pc[request] = "inflight"
    /\ pc' = [pc EXCEPT ![request] = "finish"]
    /\ UNCHANGED <<guarantee_order, m_opened, m_scheduled, m_requests_queue, m_open_lock,
                   pushed, started, opens, outcome, notClient>>

\* finish_request(), called by request_context::finish of the request; with
\* guarantee_order once it has the lock
FinishRequest(request) ==
    /\ pc[request] = "finish"
    /\ guarantee_order => m_open_lock = 0
    /\ \E f \in {finish_request} :
          /\ m_scheduled' = f.m_scheduled
          /\ m_requests_queue' = f.m_requests_queue
          /\ started' = started \o f.task
          /\ pc' = [r \in Requests |->
                      IF r = request THEN "done"
                      ELSE IF f.task = <<r>> THEN "task"
                      ELSE pc[r]]
    /\ UNCHANGED <<guarantee_order, m_opened, m_open_lock, pushed, opens, outcome, notClient>>

NextClient ==
    \/ \E request \in Requests : AsyncSendRequest(request)
    \/ \E request \in Requests : PushRequest(request)
    \/ \E request \in Requests : OpenIfRequired(request)
    \/ \E request \in Requests : TakeOpenLock(request)
    \/ \E request \in Requests, error \in OpenResults : OpenReturns(request, error)
    \/ \E request \in Requests : ReportOpenFailed(request)
    \/ \E request \in Requests : SendRequest(request)
    \/ \E request \in Requests : Complete(request)
    \/ \E request \in Requests : FinishRequest(request)

SpecClient == InitClient /\ [][NextClient]_vars

\* a request between the creation of its task and its finish_request
Started == {"task", "wantlock", "opening", "failed", "send", "inflight", "finish"}
InFlight == {r \in Requests : pc[r] \in Started}

\* the steps that go on by themselves once a request was passed to
\* async_send_request: the caller gets the lock, a created task runs, open()
\* returns, and the transport completes a request that was sent
Fairness ==
    \A request \in Requests :
        /\ WF_vars(PushRequest(request))
        /\ WF_vars(OpenIfRequired(request))
        /\ WF_vars(TakeOpenLock(request))
        /\ WF_vars(\E error \in OpenResults : OpenReturns(request, error))
        /\ WF_vars(ReportOpenFailed(request))
        /\ WF_vars(SendRequest(request))
        /\ WF_vars(Complete(request))
        /\ WF_vars(FinishRequest(request))

\* a client constructed with guarantee_order
InitOrdered == InitClient /\ guarantee_order

SpecClientLive == InitOrdered /\ [][NextClient]_vars /\ Fairness

\* C23: with guarantee_order, at most one request is between the creation
\* of its task and its finish_request at any time.
C23_OneInFlight ==
    guarantee_order => \A r, q \in InFlight : r = q

\* C23 witness: with guarantee_order, one request is done, the next one is
\* in flight and a third one waits in the queue.
C23_Witness ==
    /\ guarantee_order
    /\ \E r, q, w \in Requests :
          /\ pc[r] = "done"
          /\ pc[q] = "inflight"
          /\ pc[w] = "queued"

\* C24: with guarantee_order, the tasks are created in the order in which
\* the push_request calls took the lock: the requests started are the first
\* ones pushed, in that order, each once.
C24_Fifo ==
    guarantee_order =>
        /\ Len(started) <= Len(pushed)
        /\ \A i \in 1..Len(started) : started[i] = pushed[i]
        /\ \A i, j \in 1..Len(started) : i # j => started[i] # started[j]
        /\ \A r \in Requests : pc[r] \in Started \cup {"done"} =>
              \E i \in 1..Len(started) : started[i] = r

\* C24 witness: with guarantee_order, the last request was pushed first and
\* the first one last, and all were started in that order.
C24_Witness ==
    /\ guarantee_order
    /\ Len(started) = MaxRequests
    /\ started = pushed
    /\ pushed[1] = MaxRequests
    /\ pushed[MaxRequests] = 1

Opened == {i \in 1..Len(opens) : opens[i].error = 0}

\* C27: open() is never run by two tasks at once; at most one call of open()
\* returns 0 and none is made after it; send_request is called for a request
\* only after a call of open() returned 0; and after a call that returned an
\* error the client is not opened, the request of that call is reported the
\* error and is never sent.
C27_OpenOnce ==
    /\ \A r, q \in Requests : pc[r] = "opening" /\ pc[q] = "opening" => r = q
    /\ \A r \in Requests : pc[r] = "opening" => m_open_lock = r
    /\ Cardinality(Opened) <= 1
    /\ \A i \in Opened : i = Len(opens) /\ \A r \in Requests : pc[r] # "opening"
    /\ m_opened <=> Opened # {}
    /\ \A r \in Requests : outcome[r].sent => Opened # {}
    /\ \A i \in 1..Len(opens) : opens[i].error # 0 =>
          /\ ~outcome[opens[i].by].sent
          /\ pc[opens[i].by] \in {"failed", "finish", "done"}
          /\ pc[opens[i].by] # "failed" => outcome[opens[i].by].error = opens[i].error

\* C27 witness: without guarantee_order, the open() of one request failed and
\* the request was reported the error; the open() of a later one returned 0
\* and two requests were sent.
C27_Witness ==
    /\ ~guarantee_order
    /\ Len(opens) = 2
    /\ opens[1].error # 0
    /\ opens[2].error = 0
    /\ outcome[opens[1].by].error = opens[1].error
    /\ Cardinality({r \in Requests : outcome[r].sent}) = 2

(***************************************************************************)
(* request_context (http_client.cpp): how a request ends.  The transport   *)
(* sets the header event with complete_headers and ends the request with   *)
(* one of complete_request, report_error and report_exception; the caller  *)
(* may cancel the request's token at any time.                             *)
(***************************************************************************)
\* the messages an error is reported with
Messages == {"", "failed"}

\* unsigned long, the type of report_error's error_code
unsigned_long == uint64_t

\* http_exception(int errorCode, const std::string &whatArg)
http_exception(errorCode, whatArg) ==
    [type |-> "http_exception", code |-> errorCode, category |-> "default", what |-> whatArg]

\* http_exception((int)std::errc::operation_canceled, std::generic_category()):
\* the largest int stands for the errc's value, the category tells the
\* exception from a reported one with that code
operation_canceled ==
    [type |-> "http_exception", code |-> 2^(Bits32 - 1) - 1, category |-> "generic", what |-> ""]

\* an exception of the transport that is no http_exception
io_exception == [type |-> "exception", code |-> 0, category |-> "none", what |-> "io"]

\* static_cast<int>(error_code): the low 32 bits, read as signed
static_cast_int(error_code) ==
    LET low == error_code % 2^Bits32
    IN IF low >= 2^(Bits32 - 1) THEN low - 2^Bits32 ELSE low

\* task_completion_event::set and set_exception: true, and the event set,
\* only for the first of them
set_exception(event) == event.state = "unset"

\* _http_response::_complete(body_size, exceptionPtr)
complete(body_size, exceptionPtr) ==
    [state |-> "complete", size |-> body_size, exception |-> exceptionPtr]

\* report_exception that passes the exception to both completions
report_exception_both(exceptionPtr) ==
    LET e == IF canceled THEN operation_canceled ELSE exceptionPtr
    IN [m_request_completion |->
            IF set_exception(m_request_completion)
            THEN [state |-> "exception", exception |-> e]
            ELSE m_request_completion,
        m_response |-> complete(0, e),
        finished |-> finished + 1]

\* report_exception: the two completions and the count of finish() after it
report_exception(exceptionPtr) ==
    LET e == IF canceled THEN operation_canceled ELSE exceptionPtr
    IN IF set_exception(m_request_completion)
       THEN [m_request_completion |-> [state |-> "exception", exception |-> e],
             m_response |-> complete(0, NoException),
             finished |-> finished + 1]
       ELSE [m_request_completion |-> m_request_completion,
             m_response |-> complete(0, e),
             finished |-> finished + 1]

\* report_error that keeps the code as it was passed
report_error_wide(error_code, errorMessage) ==
    report_exception(http_exception(error_code, errorMessage))

\* report_error(error_code, errorMessage)
report_error(error_code, errorMessage) ==
    report_exception(http_exception(static_cast_int(error_code), errorMessage))

(***************************************************************************)
(* SpecContext: one request_context from its construction to its end.      *)
(***************************************************************************)
\* the sizes of a response body
MaxBodySize == 2

\* the exceptions the transport passes to report_exception
Exceptions ==
    {io_exception} \cup {http_exception(c, w) : c \in int32_t, w \in Messages}

IdleOfContext ==
    IdleObject /\ IdlePair /\ IdleArray /\ IdleValue /\ IdleNumber /\ IdleDocument /\ IdleFactory /\ IdleParser /\ IdleSize /\ IdleClient /\ IdlePipeline

InitContext ==
    /\ m_request_completion = HeadersUnset
    /\ m_response = BodyPending
    /\ canceled = FALSE
    /\ finished = 0
    /\ clast = NoContextCall
    /\ IdleOfContext

ContextCall(op, error_code, what, exception) ==
    [op |-> op, error_code |-> error_code, what |-> what, exception |-> exception,
     canceled |-> canceled, headers |-> m_request_completion, body |-> m_response,
     finished |-> finished]

\* the caller cancels the token
Cancel ==
    /\ ~canceled
    /\ canceled' = TRUE
    /\ UNCHANGED <<m_request_completion, m_response, finished, clast>>
    /\ UNCHANGED notContext

\* complete_headers(): m_request_completion.set(m_response)
CompleteHeaders ==
    /\ finished = 0
    /\ m_request_completion.state = "unset"
    /\ m_request_completion' = [state |-> "response", exception |-> NoException]
    /\ clast' = ContextCall("complete_headers", 0, "", NoException)
    /\ UNCHANGED <<m_response, canceled, finished>>
    /\ UNCHANGED notContext

\* complete_request(body_size), after the headers
CompleteRequest(body_size) ==
    /\ finished = 0
    /\ m_request_completion.state = "response"
    /\ m_response' = complete(body_size, NoException)
    /\ finished' = finished + 1
    /\ clast' = ContextCall("complete_request", 0, "", NoException)
    /\ UNCHANGED <<m_request_completion, canceled>>
    /\ UNCHANGED notContext

ReportError(error_code, errorMessage) ==
    /\ finished = 0
    /\ \E r \in {report_error(error_code, errorMessage)} :
         /\ m_request_completion' = r.m_request_completion
         /\ m_response' = r.m_response
         /\ finished' = r.finished
    /\ clast' = ContextCall("report_error", error_code, errorMessage, NoException)
    /\ UNCHANGED canceled
    /\ UNCHANGED notContext

ReportException(exceptionPtr) ==
    /\ finished = 0
    /\ \E r \in {report_exception(exceptionPtr)} :
         /\ m_request_completion' = r.m_request_completion
         /\ m_response' = r.m_response
         /\ finished' = r.finished
    /\ clast' = ContextCall("report_exception", 0, "", exceptionPtr)
    /\ UNCHANGED canceled
    /\ UNCHANGED notContext

NextContext ==
    \/ Cancel
    \/ CompleteHeaders
    \/ \E body_size \in 0..MaxBodySize : CompleteRequest(body_size)
    \/ \E error_code \in unsigned_long, errorMessage \in Messages :
         ReportError(error_code, errorMessage)
    \/ \E exceptionPtr \in Exceptions : ReportException(exceptionPtr)

SpecContext == InitContext /\ [][NextContext]_vars

\* the last call reported an error
Reported == clast.op \in {"report_error", "report_exception"}

\* the exceptions the two completions hold
InHeaders == IF m_request_completion.state = "exception" THEN {m_request_completion.exception} ELSE {}
InBody == IF m_response.exception # NoException THEN {m_response.exception} ELSE {}

\* C28: after report_exception (called directly or by report_error) exactly
\* one of the two completions holds an exception: the header event if it
\* was not set when the call was made, the body being complete without
\* one, and else the body, the header event being left as it was; either
\* way the body is complete with size 0 and finish() was called once by it.
C28_OneCompletion ==
    Reported =>
        /\ Cardinality(InHeaders) + Cardinality(InBody) = 1
        /\ IF clast.headers.state = "unset"
           THEN InHeaders # {} /\ m_response = complete(0, NoException)
           ELSE InBody # {} /\ m_request_completion = clast.headers
        /\ m_response.state = "complete"
        /\ m_response.size = 0
        /\ finished = clast.finished + 1

\* an exception reported after the headers were complete: it is in the body
C28_Witness ==
    /\ clast.op = "report_exception"
    /\ clast.headers.state = "response"
    /\ InBody = {io_exception}
    /\ finished = 1

\* what the caller is given
Delivered == InHeaders \cup InBody

\* the error as it was passed to the last call
Original ==
    IF clast.op = "report_error"
    THEN http_exception(clast.error_code, clast.what)
    ELSE clast.exception

\* the error of the last call with its code as an int
Converted ==
    IF clast.op = "report_error"
    THEN http_exception(static_cast_int(clast.error_code), clast.what)
    ELSE clast.exception

\* C29 as stated: with the token canceled the caller is given
\* operation_canceled, and else the error as it was passed.
C29_Original ==
    Reported =>
        Delivered = {IF clast.canceled THEN operation_canceled ELSE Original}

\* C29: with the token canceled when the error is reported the caller is
\* given operation_canceled whatever was reported; else the caller is given
\* the exception passed to report_exception, and for report_error an
\* http_exception with the message and the error code converted to int,
\* which is the code passed where that is at most INT_MAX.
C29_Delivered ==
    Reported =>
        /\ Delivered = {IF clast.canceled THEN operation_canceled ELSE Converted}
        /\ clast.error_code < 2^(Bits32 - 1) => Converted = Original

\* an error code above INT_MAX reported with the token not canceled
C29_Witness ==
    /\ clast.op = "report_error"
    /\ ~clast.canceled
    /\ clast.error_code >= 2^(Bits32 - 1)
    /\ Delivered = {Converted}
    /\ Converted # Original

(***************************************************************************)
(* http_client's constructors (http_client.cpp): verify_uri and            *)
(* build_pipeline.  A uri is kept by the components the code reads, its    *)
(* scheme and its host, and a path; a client configuration by the two      *)
(* OAuth configurations handed to the handlers.                            *)
(***************************************************************************)
invalid_argument(what) == [type |-> "invalid_argument", what |-> what]

\* verify_uri without the test of the host
verify_uri_any_host(uri) ==
    IF uri.scheme # "http" /\ uri.scheme # "https"
    THEN invalid_argument("URI scheme must be 'http' or 'https'")
    ELSE NoThrow

\* verify_uri(uri): what it throws
verify_uri(uri) ==
    IF uri.scheme # "http" /\ uri.scheme # "https"
    THEN invalid_argument("URI scheme must be 'http' or 'https'")
    ELSE IF uri.host = ""
         THEN invalid_argument("URI must contain a hostname.")
         ELSE NoThrow

\* uri_builder(uri).set_scheme(scheme).to_uri()
set_scheme(uri, scheme) == [uri EXCEPT !.scheme = scheme]

http_network_handler(base_uri, client_config) ==
    [handler |-> "http_network_handler", base_uri |-> base_uri, client_config |-> client_config]
oauth1_handler(cfg) == [handler |-> "oauth1_handler", config |-> cfg]
oauth2_handler(cfg) == [handler |-> "oauth2_handler", config |-> cfg]

\* http_pipeline::create_pipeline(last_stage)
create_pipeline(last_stage) ==
    [created |-> TRUE, stages |-> <<>>, last_stage |-> <<last_stage>>]

\* http_client::add_handler(stage): m_pipeline->append(stage)
add_handler(pipeline, stage) == [pipeline EXCEPT !.stages = Append(@, stage)]

\* build_pipeline(base_uri, client_config): what it throws and m_pipeline
\* after it
build_pipeline(base_uri, client_config) ==
    LET uri == IF base_uri.scheme = "" THEN set_scheme(base_uri, "http") ELSE base_uri
        thrown == verify_uri(uri)
        created == create_pipeline(http_network_handler(uri, client_config))
        with1 == IF ~CPPREST_TARGET_XP
                 THEN add_handler(created, oauth1_handler(client_config.oauth1))
                 ELSE created
    IN IF thrown # NoThrow
       THEN [thrown |-> thrown, m_pipeline |-> m_pipeline]
       ELSE [thrown |-> NoThrow,
             m_pipeline |-> add_handler(with1, oauth2_handler(client_config.oauth2))]

(***************************************************************************)
(* SpecPipeline: one http_client, constructed from a base URI and a        *)
(* configuration, in either build of the library.                          *)
(***************************************************************************)
Schemes == {"", "http", "https", "ftp"}
Hosts == {"", "localhost"}
UriPaths == {"", "/api"}
Uris == [scheme : Schemes, host : Hosts, path : UriPaths]
Configs == [oauth1 : {"none", "token"}, oauth2 : {"none", "token"}]

\* the handlers a user adds after the construction
MaxHandlers == 1

IdleOfPipeline ==
    IdleObject /\ IdlePair /\ IdleArray /\ IdleValue /\ IdleNumber /\ IdleDocument /\ IdleFactory /\ IdleParser /\ IdleSize /\ IdleClient /\ IdleContext

InitPipeline ==
    /\ CPPREST_TARGET_XP \in BOOLEAN
    /\ m_pipeline = NoPipeline
    /\ blast = NoConstruction
    /\ IdleOfPipeline

\* http_client(base_uri, client_config)
BuildPipeline(base_uri, client_config) ==
    /\ blast.op = "none"
    /\ \E r \in {build_pipeline(base_uri, client_config)} :
         /\ m_pipeline' = r.m_pipeline
         /\ blast' = [op |-> "build_pipeline", base_uri |-> base_uri,
                      client_config |-> client_config, thrown |-> r.thrown]
    /\ UNCHANGED CPPREST_TARGET_XP
    /\ UNCHANGED notPipeline

\* add_handler(stage) on the client constructed
AddHandler ==
    /\ m_pipeline.created
    /\ Len(SelectSeq(m_pipeline.stages, LAMBDA s : s.handler = "user")) < MaxHandlers
    /\ m_pipeline' = add_handler(m_pipeline, [handler |-> "user", config |-> "none"])
    /\ UNCHANGED <<CPPREST_TARGET_XP, blast>>
    /\ UNCHANGED notPipeline

NextPipeline ==
    \/ \E base_uri \in Uris, client_config \in Configs : BuildPipeline(base_uri, client_config)
    \/ AddHandler

SpecPipeline == InitPipeline /\ [][NextPipeline]_vars

\* the base URI of the construction, an empty scheme replaced by "http"
WithScheme ==
    IF blast.base_uri.scheme = "" THEN [blast.base_uri EXCEPT !.scheme = "http"] ELSE blast.base_uri

Acceptable == WithScheme.scheme \in {"http", "https"} /\ WithScheme.host # ""

\* the handlers of the pipeline that are no user's
OwnStages == SelectSeq(m_pipeline.stages, LAMBDA s : s.handler # "user")

\* the pipeline holds the network handler of the URI and the configuration
ForUri ==
    /\ m_pipeline.created
    /\ m_pipeline.last_stage = <<http_network_handler(WithScheme, blast.client_config)>>

OAuth1 == oauth1_handler(blast.client_config.oauth1)
OAuth2 == oauth2_handler(blast.client_config.oauth2)

\* C30 as stated: the oauth1 and oauth2 handlers are added on every success.
C30_Original ==
    blast.op = "build_pipeline" =>
        IF Acceptable
        THEN blast.thrown = NoThrow /\ ForUri /\ OwnStages = <<OAuth1, OAuth2>>
        ELSE blast.thrown.type = "invalid_argument" /\ m_pipeline = NoPipeline

\* C30: the construction succeeds exactly if, an empty scheme replaced by
\* "http", the scheme is "http" or "https" and the host is not empty; else
\* it throws invalid_argument and there is no pipeline.  On success the
\* pipeline holds the network handler of that URI with the oauth2 handler
\* added, and before it the oauth1 handler unless the library was built
\* with CPPREST_TARGET_XP.
C30_Construct ==
    blast.op = "build_pipeline" =>
        IF Acceptable
        THEN /\ blast.thrown = NoThrow
             /\ ForUri
             /\ OwnStages = IF CPPREST_TARGET_XP THEN <<OAuth2>> ELSE <<OAuth1, OAuth2>>
        ELSE /\ blast.thrown.type = "invalid_argument"
             /\ m_pipeline = NoPipeline

\* a client constructed without a scheme in the XP build: no oauth1 handler
C30_Witness ==
    /\ blast.op = "build_pipeline"
    /\ blast.base_uri.scheme = ""
    /\ blast.base_uri.host # ""
    /\ CPPREST_TARGET_XP
    /\ ForUri
    /\ OwnStages = <<OAuth2>>

====
